---- MODULE Spec2Model ----
(***************************************************************************)
(* Early-metrics computation and classification engine of the dashboard    *)
(* (src/frontend/streamlit_app.py): compute_early_metrics followed by      *)
(* score_and_classify, as called by the Early Leaders tab.                 *)
(*                                                                         *)
(* Representation.                                                         *)
(*  - Instants are whole seconds (Nat); NaT is the missing instant.        *)
(*  - A numeric cell of an event table is a Nat, or NaNCell when the cell  *)
(*    is NaN / unparseable.                                                *)
(*  - A float of a derived column is a record [k, n, d]: k = "num" is the  *)
(*    rational n/d in lowest terms with d > 0, k = "nan" is NaN and        *)
(*    k = "inf" is +infinity.  Arithmetic is exact; pandas computes in     *)
(*    binary floating point, so a value that lies exactly on a rounding    *)
(*    tie or exactly on a gate boundary may fall on either side there.     *)
(*  - Ratios given as thresholds (buy_ratio_center, buy_ratio_tol,         *)
(*    max_concentration) are held in hundredths, early_score in tenths of  *)
(*    a point (0 .. 1000 stands for 0.0 .. 100.0).                         *)
(***************************************************************************)
EXTENDS Integers, Sequences, FiniteSets, TLC

VARIABLES db, cfg, kw, earlier, pairs, swaps, pwm, lp_events, th, metrics, ranked, i, pc,
          token_db, token_addrs, maps, batch_no,
          launch_file, clock, timer, runs,
          net, buffer, event_count, received, session_state, shown

\* latest_pair_map_for_tokens: the pairs table of the data source, the
\* argument, the map under construction and the number of batches done
latest_vars == <<token_db, token_addrs, maps, batch_no>>

\* the demo timer: the persistent file, the clock, what _get_time_remaining
\* returned last and the number of script runs so far
demo_vars == <<launch_file, clock, timer, runs>>

\* the live feed: the connection of stream_enterprise with its locals, the
\* chunks it received, the session state and the rendered table
live_vars == <<net, buffer, event_count, received, session_state, shown>>

\* the state of the metrics pass and its inputs
pass_vars == <<db, cfg, kw, earlier, pairs, swaps, pwm, lp_events, th, metrics, ranked, i, pc>>

vars == <<pass_vars, latest_vars, demo_vars, live_vars>>

\* what no step of the metrics pass writes: the data source, the sidebar
\* settings, the keyword arguments, the output kept from an earlier run and
\* the state of the other parts of the page
env == <<db, cfg, kw, earlier, latest_vars, demo_vars, live_vars>>

(***************************************************************************)
(* Bounds of the model and program constants                               *)
(***************************************************************************)
MaxPairs == 2
MaxSwaps == 2
T0 == 1000
\* the batch size of the fetch helpers (120 identifiers for swaps, 200 for
\* window metrics and liquidity events) and their row limits per request
\* (10000, 5000, 20000), scaled down
CHUNK == 1
limit_per_batch == 1
limit_pwm == 1
limit_lp == 1

burst_window_s == 120
uniques_window_m == 10
pwm_window_total_m == 15
lp_span_m == 15
top_n == 5

default_ttf_ceil_s == 600
default_min_swaps_per_min == 20
default_min_uniques_10m == 50
default_buy_ratio_center == 55
default_buy_ratio_tol == 25
default_max_concentration == 70
default_leader_score_min == 60

w_vel == 35
w_uniq == 35
w_br == 10
w_conc == 20
lp_haircut_tenths == 9
hype_score_min == 35

NaT == -1
NaNCell == -1
NullStr == "<null>"

(***************************************************************************)
(* Floats                                                                  *)
(***************************************************************************)
RECURSIVE Gcd(_, _)
Gcd(a, b) == IF b = 0 THEN a ELSE Gcd(b, a % b)

AbsInt(x) == IF x < 0 THEN -x ELSE x

NaN == [k |-> "nan", n |-> 0, d |-> 1]
Inf == [k |-> "inf", n |-> 0, d |-> 1]

Num(n, d) ==
    LET s == IF d < 0 THEN -1 ELSE 1
        g == Gcd(AbsInt(n), AbsInt(d))
    IN  [k |-> "num", n |-> (s * n) \div g, d |-> (s * d) \div g]

IsNaN(x) == x.k = "nan"
IsNum(x) == x.k = "num"
fillna(x, v) == IF IsNaN(x) THEN v ELSE x

Zero == Num(0, 1)
One == Num(1, 1)
Half == Num(1, 2)

\* a <= b on floats: every comparison with NaN is false
Leq(a, b) ==
    CASE IsNaN(a) \/ IsNaN(b) -> FALSE
      [] b.k = "inf" -> TRUE
      [] a.k = "inf" -> FALSE
      [] OTHER -> a.n * b.d <= b.n * a.d

Geq(a, b) == Leq(b, a)
Gt(a, b) == ~IsNaN(a) /\ ~IsNaN(b) /\ ~Leq(a, b)

\* finite arithmetic (NaN propagates)
Add(a, b) == IF IsNaN(a) \/ IsNaN(b) THEN NaN ELSE Num(a.n * b.d + b.n * a.d, a.d * b.d)
Sub(a, b) == IF IsNaN(a) \/ IsNaN(b) THEN NaN ELSE Num(a.n * b.d - b.n * a.d, a.d * b.d)
Mul(a, b) == IF IsNaN(a) \/ IsNaN(b) THEN NaN ELSE Num(a.n * b.n, a.d * b.d)
Abs(a) == IF IsNaN(a) THEN NaN ELSE Num(AbsInt(a.n), a.d)

\* Series.clip(0, 1): NaN stays NaN
clip01(x) ==
    CASE IsNaN(x) -> NaN
      [] x.k = "inf" -> One
      [] x.n < 0 -> Zero
      [] x.n > x.d -> One
      [] OTHER -> x

\* fault: the divisor is not floored, so 0 / 0 is NaN and x / 0 is infinite
DivFloor_unfloored(x, tn, td) ==
    CASE IsNaN(x) -> NaN
      [] x.k = "inf" -> Inf
      [] tn > 0 -> Num(x.n * td, x.d * tn)
      [] x.n = 0 -> NaN
      [] OTHER -> Inf

\* x / max(t, 1e-9) for a finite x and an integer-scaled threshold t = tn/td.
\* With t <= 0 the divisor is 1e-9: every x the model holds is 0 or at least
\* 1e-9 in magnitude, so the quotient is 0 or beyond the clip range; it is
\* returned as 0, Inf or a negative number, which clip01 maps as pandas does.
DivFloor(x, tn, td) ==
    CASE IsNaN(x) -> NaN
      [] x.k = "inf" -> Inf
      [] tn > 0 -> Num(x.n * td, x.d * tn)
      [] x.n = 0 -> Zero
      [] x.n > 0 -> Inf
      [] OTHER -> Num(-1, 1)

\* round-half-even of a non-negative rational to an integer (numpy rint)
RoundHalfEven(x) ==
    LET q == x.n \div x.d
        r == x.n % x.d
    IN  CASE 2 * r < x.d -> q
          [] 2 * r > x.d -> q + 1
          [] OTHER -> IF q % 2 = 0 THEN q ELSE q + 1

(***************************************************************************)
(* Table helpers                                                           *)
(***************************************************************************)
\* the rows of s at the positions idx, in order (a boolean-mask selection)
Rows_at(s, idx) ==
    LET F[k \in 0..Len(s)] ==
            IF k = 0 THEN <<>>
            ELSE IF k \in idx THEN Append(F[k - 1], s[k]) ELSE F[k - 1]
    IN  F[Len(s)]

RECURSIVE SumOver(_, _)
\* sum of f over the finite set S of its domain
SumOver(f, S) ==
    IF S = {} THEN 0
    ELSE LET x == CHOOSE y \in S : TRUE IN f[x] + SumOver(f, S \ {x})

\* pd.to_numeric(col, errors="coerce").fillna(0).sum() over a column of cells
SumCells(col) ==
    SumOver([j \in 1..Len(col) |-> IF col[j] = NaNCell THEN 0 ELSE col[j]], 1..Len(col))

\* str.lower() on the strings the tables hold
Lower(s) ==
    CASE s = "BUY" -> "buy"
      [] s = "Buy" -> "buy"
      [] s = "SELL" -> "sell"
      [] s = "ADD" -> "add"
      [] s = "Add" -> "add"
      [] s = "REMOVE" -> "remove"
      [] s = "Remove" -> "remove"
      [] OTHER -> s

\* df.groupby("pair_address") then .get(p, empty frame): the rows of p, in order
by_pair(rows, p) == Rows_at(rows, {j \in 1..Len(rows) : rows[j].pair_address = p})

(***************************************************************************)
(* compute_early_metrics: helpers                                          *)
(***************************************************************************)
\* the window filter (col >= lo) & (col <= hi); a NaT cell compares false
in_window(t, lo, hi) == t # NaT /\ t >= lo /\ t <= hi

MinOf(S) == CHOOSE x \in S : \A y \in S : x <= y

_first_trade_ts(sw) ==
    LET ts == {sw[j].ts : j \in 1..Len(sw)} \ {NaT}
    IN  IF Len(sw) = 0 \/ ts = {} THEN NaT ELSE MinOf(ts)

\* TRUE at the positions of sw that count as buys
_buy_mask(side_col, sw) ==
    IF side_col /\ ~(\A j \in 1..Len(sw) : sw[j].side = NullStr)
    THEN [j \in 1..Len(sw) |-> Lower(sw[j].side) = "buy"]
    ELSE [j \in 1..Len(sw) |-> (j - 1) % 2 = 0]

\* the amount column used for concentration, as a function of a row
amount_column(sw_buys) ==
    CASE ~(\A j \in 1..Len(sw_buys) : sw_buys[j].amount_usd = NaNCell) -> "amount_usd"
      [] ~(\A j \in 1..Len(sw_buys) : sw_buys[j].amount_in = NaNCell) -> "amount_in"
      [] ~(\A j \in 1..Len(sw_buys) : sw_buys[j].amount_out = NaNCell) -> "amount_out"
      [] OTHER -> "uniform"

\* fault: each swap takes the first amount field it has itself
_amount_for_concentration_per_swap(sw_buys) ==
    [j \in 1..Len(sw_buys) |->
        LET r == sw_buys[j]
        IN  CASE r.amount_usd # NaNCell -> r.amount_usd
              [] r.amount_in # NaNCell -> r.amount_in
              [] r.amount_out # NaNCell -> r.amount_out
              [] OTHER -> 1]

_amount_for_concentration(sw_buys) ==
    LET col == amount_column(sw_buys)
        cell(r) == CASE col = "amount_usd" -> r.amount_usd
                     [] col = "amount_in" -> r.amount_in
                     [] col = "amount_out" -> r.amount_out
                     [] OTHER -> 1
    IN  [j \in 1..Len(sw_buys) |-> IF cell(sw_buys[j]) = NaNCell THEN 0 ELSE cell(sw_buys[j])]

RECURSIVE SumTop(_, _, _)
\* sum of the k largest values of g over the keys S (sort descending, head(k))
SumTop(g, S, k) ==
    IF k = 0 \/ S = {} THEN 0
    ELSE LET m == CHOOSE t \in S : \A u \in S : g[u] <= g[t]
         IN  g[m] + SumTop(g, S \ {m}, k - 1)

\* top5_concentration of the window sw_15
concentration(side_col, sw_15) ==
    IF Len(sw_15) = 0 THEN NaN
    ELSE LET mask == _buy_mask(side_col, sw_15)
             rows == Rows_at(sw_15, {j \in 1..Len(sw_15) : mask[j]})
         IN  IF Len(rows) = 0 THEN NaN
             ELSE LET amt == _amount_for_concentration(rows)
                      \* groupby drops the rows whose key is null
                      traders == {rows[j].trader_wallet : j \in 1..Len(rows)} \ {NullStr}
                      g == [t \in traders |->
                              SumOver([j \in 1..Len(rows) |->
                                          IF rows[j].trader_wallet = t THEN amt[j] ELSE 0],
                                      1..Len(rows))]
                      total == SumOver(g, traders)
                      top5 == SumTop(g, traders, top_n)
                  IN  IF total > 0 THEN Num(top5, total) ELSE NaN

(***************************************************************************)
(* compute_early_metrics                                                   *)
(***************************************************************************)
\* out["effective_created_at"]: the column when the table carries it, else
\* pair_created_at where present and snapshot_ts otherwise
effective_of(eff_col, r) ==
    IF eff_col THEN r.effective_created_at
    ELSE IF r.pair_created_at # NaT THEN r.pair_created_at ELSE r.snapshot_ts

\* the row of out before the loop: the pair's columns and the sentinels
sentinel_row(eff_col, r) ==
    [pair_address |-> r.pair_address,
     pair_created_at |-> r.pair_created_at,
     snapshot_ts |-> r.snapshot_ts,
     effective_created_at |-> effective_of(eff_col, r),
     first_trade_ts |-> NaT,
     time_to_first_trade_s |-> NaN,
     swaps_in_burst |-> Zero,
     swaps_per_min_burst |-> Zero,
     uniq_traders_10m |-> Zero,
     buy_ratio_15m |-> NaN,
     top5_concentration |-> NaN,
     lp_add_usd_15 |-> Zero,
     lp_remove_usd_15 |-> Zero]

\* fault: the post-creation filter is left out
post_creation_unfiltered(sw_rows, p, created) == by_pair(sw_rows, p)

\* fault: the swaps are not grouped by pair
post_creation_all_pairs(sw_rows, p, created) ==
    Rows_at(sw_rows, {j \in 1..Len(sw_rows) : sw_rows[j].ts = NaT \/ sw_rows[j].ts >= created})

\* the pair's swaps kept by the post-creation filter (a NaT ts is filled with
\* the largest instant, so the row stays)
post_creation(sw_rows, p, created) ==
    LET sw == by_pair(sw_rows, p)
    IN  Rows_at(sw, {j \in 1..Len(sw) : sw[j].ts = NaT \/ sw[j].ts >= created})

\* fault: the window excludes its first instant
window_of_open(sw, lo, len_s) ==
    Rows_at(sw, {j \in 1..Len(sw) : sw[j].ts # NaT /\ sw[j].ts > lo /\ sw[j].ts <= lo + len_s})

\* fault: the window excludes its last instant
window_of_half_open(sw, lo, len_s) ==
    Rows_at(sw, {j \in 1..Len(sw) : sw[j].ts # NaT /\ sw[j].ts >= lo /\ sw[j].ts < lo + len_s})

\* sw[(sw["ts"] >= lo) & (sw["ts"] <= lo + len_s)]
window_of(sw, lo, len_s) ==
    Rows_at(sw, {j \in 1..Len(sw) : in_window(sw[j].ts, lo, lo + len_s)})

\* buys / max(buys + sells, 1.0)
ratio_of(buys, sells) == Num(buys, IF buys + sells > 1 THEN buys + sells ELSE 1)

count_true(mask, n) == Cardinality({j \in 1..n : mask[j]})

\* buy_ratio_15m of a pair with a first trade
buy_ratio(sw_tab, pwm_rows, p, created, sw_15) ==
    IF Len(sw_15) > 0 /\ sw_tab.side_col
    THEN LET is_buy == _buy_mask(sw_tab.side_col, sw_15)
             buys == count_true(is_buy, Len(sw_15))
             sells == Len(sw_15) - buys
         IN  ratio_of(buys, sells)
    ELSE LET pwm_df == by_pair(pwm_rows, p)
             pwm_early == Rows_at(pwm_df,
                 {j \in 1..Len(pwm_df) :
                     in_window(pwm_df[j].snapshot_ts, created, created + 60 * pwm_window_total_m)})
         IN  IF Len(pwm_early) > 0
             THEN ratio_of(SumCells([j \in 1..Len(pwm_early) |-> pwm_early[j].buys]),
                           SumCells([j \in 1..Len(pwm_early) |-> pwm_early[j].sells]))
             ELSE NaN

\* fault: the action is matched as written, not lower-cased
lp_total_exact_case(lp_rows, p, created, action) ==
    LET le_df == by_pair(lp_rows, p)
        win == Rows_at(le_df,
                   {j \in 1..Len(le_df) : in_window(le_df[j].ts, created, created + 60 * lp_span_m)})
        sel == Rows_at(win, {j \in 1..Len(win) : win[j].action = action})
    IN  SumCells([j \in 1..Len(sel) |-> sel[j].value_usd])

\* lp_add_usd_15 / lp_remove_usd_15: the sum of value_usd over the pair's
\* events of that action in [created, created + 15 min]
lp_total(lp_rows, p, created, action) ==
    LET le_df == by_pair(lp_rows, p)
        win == Rows_at(le_df,
                   {j \in 1..Len(le_df) : in_window(le_df[j].ts, created, created + 60 * lp_span_m)})
        sel == Rows_at(win, {j \in 1..Len(win) : Lower(win[j].action) = action})
    IN  SumCells([j \in 1..Len(sel) |-> sel[j].value_usd])

\* fault: every swap of the window counts, not every trader
uniq_cnt_rows(w) == Num(Len(w), 1)

\* float(w["trader_wallet"].dropna().astype(str).nunique())
uniq_cnt(w) == Num(Cardinality({w[j].trader_wallet : j \in 1..Len(w)} \ {NullStr}), 1)

\* one iteration of the loop for a row that is not skipped, with the keyword
\* argument burst_window_s = bw
early_row_kw(row, sw_tab, pwm_rows, lp_rows, bw) ==
    LET p == row.pair_address
        created == row.effective_created_at
        sw == post_creation(sw_tab.rows, p, created)
        first_ts == _first_trade_ts(sw)
        burst == window_of(sw, first_ts, bw)
        w == window_of(sw, first_ts, 60 * uniques_window_m)
        sw_15 == window_of(sw, first_ts, 60 * pwm_window_total_m)
        traded == first_ts # NaT
    IN  [row EXCEPT
           !.first_trade_ts = first_ts,
           !.time_to_first_trade_s =
               IF traded
               THEN Num(IF first_ts - created > 0 THEN first_ts - created ELSE 0, 1)
               ELSE Inf,
           !.swaps_in_burst = IF traded THEN Num(Len(burst), 1) ELSE @,
           !.swaps_per_min_burst =
               IF traded THEN DivFloor(Num(Len(burst), 1), bw, 60) ELSE @,
           !.uniq_traders_10m =
               IF traded
               THEN uniq_cnt(w)
               ELSE @,
           !.buy_ratio_15m =
               IF traded THEN buy_ratio(sw_tab, pwm_rows, p, created, sw_15) ELSE @,
           !.top5_concentration =
               IF traded THEN concentration(sw_tab.side_col, sw_15) ELSE @,
           !.lp_add_usd_15 = Num(lp_total(lp_rows, p, created, "add"), 1),
           !.lp_remove_usd_15 = Num(lp_total(lp_rows, p, created, "remove"), 1)]

\* the iteration as every caller runs it: burst_window_s at its default
early_row(row, sw_tab, pwm_rows, lp_rows) ==
    early_row_kw(row, sw_tab, pwm_rows, lp_rows, burst_window_s)

\* the rows the loop skips: no string identifier or no effective creation instant
skipped(row) == row.pair_address = NullStr \/ row.effective_created_at = NaT

(***************************************************************************)
(* score_and_classify                                                      *)
(***************************************************************************)
\* 1.0 - q, where q may be +infinity (the result is then below the clip range)
one_minus(q) ==
    CASE IsNaN(q) -> NaN
      [] q.k = "inf" -> Num(-1, 1)
      [] OTHER -> Sub(One, q)

vel_of(row) == fillna(row.swaps_per_min_burst, Zero)
uniq_of(row) == fillna(row.uniq_traders_10m, Zero)
lprem_of(row) == fillna(row.lp_remove_usd_15, Zero)

s_vel(row, t) == clip01(DivFloor(vel_of(row), t.min_swaps_per_min, 1))

s_uniq(row, t) == clip01(DivFloor(uniq_of(row), t.min_uniques_10m, 1))

\* fault: the neutral default for a missing buy ratio is left out
s_br_unfilled(row, t) ==
    clip01(one_minus(DivFloor(Abs(Sub(row.buy_ratio_15m, Num(t.buy_ratio_center, 100))),
                              t.buy_ratio_tol, 100)))

s_br(row, t) ==
    fillna(clip01(one_minus(DivFloor(Abs(Sub(row.buy_ratio_15m, Num(t.buy_ratio_center, 100))),
                                     t.buy_ratio_tol, 100))),
           Half)

s_conc(row) ==
    fillna(clip01(one_minus(Mul(Sub(row.top5_concentration, Half), Num(2, 1)))), Half)

\* fault: the penalty condition is inverted
lp_pen_inverted(row) == ~Gt(lprem_of(row), Zero)

lp_pen(row) == Gt(lprem_of(row), Zero)

\* Series.between(left, right, inclusive="both"): false where the value is NaN
between(x, lo, hi) == Leq(lo, x) /\ Leq(x, hi)

gate_tradeable(row, t) == Leq(fillna(row.time_to_first_trade_s, Inf), Num(t.ttf_ceil_s, 1))

gate_velocity(row, t) == Geq(vel_of(row), Num(t.min_swaps_per_min, 1))

gate_uniques(row, t) == Geq(uniq_of(row), Num(t.min_uniques_10m, 1))

\* between(...) yields a boolean column without missing values, so the
\* .fillna(True) that follows it changes nothing
gate_br(row, t) ==
    between(row.buy_ratio_15m,
            Num(t.buy_ratio_center - t.buy_ratio_tol, 100),
            Num(t.buy_ratio_center + t.buy_ratio_tol, 100))

gate_conc(row, t) == Leq(fillna(row.top5_concentration, Half), Num(t.max_concentration, 100))

gate_lp_ok(row) == ~Gt(lprem_of(row), Zero)

\* 0.35*s_vel + 0.35*s_uniq + 0.10*s_br + 0.20*s_conc
raw_score(row, t) ==
    Add(Add(Mul(Num(w_vel, 100), s_vel(row, t)), Mul(Num(w_uniq, 100), s_uniq(row, t))),
        Add(Mul(Num(w_br, 100), s_br(row, t)), Mul(Num(w_conc, 100), s_conc(row))))

\* fault: a removal zeroes the composite
score_01_zeroed(row, t) == IF lp_pen(row) THEN Zero ELSE raw_score(row, t)

\* score_01 * (1.0 - 0.9 * lp_pen)
score_01(row, t) ==
    IF lp_pen(row) THEN Mul(raw_score(row, t), Num(10 - lp_haircut_tenths, 10))
    ELSE raw_score(row, t)

\* (score_01.clip(0, 1) * 100.0).round(1), in tenths of a point; NaNCell when
\* the score is NaN
early_score(row, t) ==
    LET c == clip01(score_01(row, t))
    IN  IF IsNaN(c) THEN NaNCell ELSE RoundHalfEven(Mul(c, Num(1000, 1)))

\* early_scores = out["early_score"].astype(float).fillna(0.0)
sc_of(row, t) == IF early_score(row, t) = NaNCell THEN 0 ELSE early_score(row, t)

\* " & ".join(parts)
RECURSIVE join(_)
join(parts) ==
    IF Len(parts) = 1 THEN parts[1] ELSE parts[1] \o " & " \o join(Tail(parts))

opt(cond, s) == IF cond THEN <<s>> ELSE <<>>

is_leader(row, t) ==
    /\ gate_velocity(row, t) /\ gate_uniques(row, t) /\ gate_br(row, t) /\ gate_conc(row, t)
    /\ sc_of(row, t) >= 10 * t.leader_score_min

\* fault: only the score admits a row to "Hype / Risky"
is_hype_score_only(row, t) ==
    sc_of(row, t) >= 10 * hype_score_min

is_hype(row, t) ==
    \/ sc_of(row, t) >= 10 * hype_score_min
    \/ (gate_velocity(row, t) /\ (gate_uniques(row, t) \/ gate_br(row, t)))

label(c, r) == [classification |-> c, reason |-> r]

\* fault: the failed gates are listed in another order
hype_reason_reordered(row, t) ==
    LET missing == opt(~gate_uniques(row, t), "Uniques")
                     \o opt(~gate_conc(row, t), "Concentration")
                     \o opt(~gate_br(row, t), "BuyRatio")
    IN  IF missing = <<>> THEN "Borderline" ELSE join(missing)

hype_reason(row, t) ==
    LET missing == opt(~gate_conc(row, t), "Concentration")
                     \o opt(~gate_uniques(row, t), "Uniques")
                     \o opt(~gate_br(row, t), "BuyRatio")
    IN  IF missing = <<>> THEN "Borderline" ELSE join(missing)

loser_reason(row, t) ==
    LET why == opt(~gate_velocity(row, t), "Low velocity")
                 \o opt(~gate_uniques(row, t), "Low uniques")
                 \o opt(~gate_br(row, t), "Unbalanced flow")
    IN  IF why = <<>> THEN "Weak" ELSE join(why)

\* fault: the Early Leader test leaves out the concentration gate
classify_without_conc(row, t) ==
    IF /\ gate_velocity(row, t) /\ gate_uniques(row, t) /\ gate_br(row, t)
       /\ sc_of(row, t) >= 10 * t.leader_score_min
    THEN label("Early Leader", "Velocity+Uniques+Balance+Dispersion")
    ELSE IF is_hype(row, t) THEN label("Hype / Risky", hype_reason(row, t))
    ELSE IF ~gate_tradeable(row, t) THEN label("Loser (no early trades)", "No trade <=10m")
    ELSE IF ~gate_lp_ok(row) THEN label("Loser (early LP remove)", "LP removed <=15m")
    ELSE label("Loser", loser_reason(row, t))

\* fault: the tradeability and LP gates are checked before Hype / Risky
classify_losers_first(row, t) ==
    IF is_leader(row, t) THEN label("Early Leader", "Velocity+Uniques+Balance+Dispersion")
    ELSE IF ~gate_tradeable(row, t) THEN label("Loser (no early trades)", "No trade <=10m")
    ELSE IF ~gate_lp_ok(row) THEN label("Loser (early LP remove)", "LP removed <=15m")
    ELSE IF is_hype(row, t) THEN label("Hype / Risky", hype_reason(row, t))
    ELSE label("Loser", loser_reason(row, t))

\* fault: the LP gate is checked before the tradeability gate
classify_lp_before_trade(row, t) ==
    IF is_leader(row, t) THEN label("Early Leader", "Velocity+Uniques+Balance+Dispersion")
    ELSE IF is_hype(row, t) THEN label("Hype / Risky", hype_reason(row, t))
    ELSE IF ~gate_lp_ok(row) THEN label("Loser (early LP remove)", "LP removed <=15m")
    ELSE IF ~gate_tradeable(row, t) THEN label("Loser (no early trades)", "No trade <=10m")
    ELSE label("Loser", loser_reason(row, t))

\* fault: the two Loser variants carry each other's reason
classify_reasons_swapped(row, t) ==
    IF is_leader(row, t) THEN label("Early Leader", "Velocity+Uniques+Balance+Dispersion")
    ELSE IF is_hype(row, t) THEN label("Hype / Risky", hype_reason(row, t))
    ELSE IF ~gate_tradeable(row, t) THEN label("Loser (no early trades)", "LP removed <=15m")
    ELSE IF ~gate_lp_ok(row) THEN label("Loser (early LP remove)", "No trade <=10m")
    ELSE label("Loser", loser_reason(row, t))

\* the label and the reason the loop appends for one row: first match wins
classify(row, t) ==
    IF is_leader(row, t) THEN label("Early Leader", "Velocity+Uniques+Balance+Dispersion")
    ELSE IF is_hype(row, t) THEN label("Hype / Risky", hype_reason(row, t))
    ELSE IF ~gate_tradeable(row, t) THEN label("Loser (no early trades)", "No trade <=10m")
    ELSE IF ~gate_lp_ok(row) THEN label("Loser (early LP remove)", "LP removed <=15m")
    ELSE label("Loser", loser_reason(row, t))

\* one row of the table score_and_classify returns
ranked_row(row, t) ==
    [metrics |-> row,
     early_score |-> early_score(row, t),
     classification |-> classify(row, t).classification,
     reason |-> classify(row, t).reason]

(***************************************************************************)
(* Inputs                                                                  *)
(***************************************************************************)
SeqsUpTo(S, n) == UNION {[1..m -> S] : m \in 0..n}

PairRow(p, c, sn, e) ==
    [pair_address |-> p, pair_created_at |-> c, snapshot_ts |-> sn, effective_created_at |-> e]

\* rows of a pairs table without an effective_created_at column: created,
\* observed only, neither instant, no identifier
PairRowSet ==
    {PairRow("p1", T0, T0 + 30, NaT), PairRow("p1", NaT, T0 + 30, NaT),
     PairRow("p2", NaT, NaT, NaT), PairRow(NullStr, T0, T0 + 30, NaT)}

\* rows of a pairs table that carries the column (fetch_recent_pairs adds it)
PairRowSetEff ==
    {PairRow("p1", NaT, T0 + 30, T0), PairRow("p1", T0, T0 + 30, NaT)}

PairTables ==
    {[eff_col |-> FALSE, rows |-> r] : r \in SeqsUpTo(PairRowSet, MaxPairs)}
        \cup {[eff_col |-> TRUE, rows |-> r] : r \in SeqsUpTo(PairRowSetEff, MaxPairs)}

OnePairTable == [eff_col |-> FALSE, rows |-> <<PairRow("p1", T0, T0 + 30, NaT)>>]

SwapRow(p, t, w, sd, usd) ==
    [pair_address |-> p, ts |-> t, trader_wallet |-> w, side |-> sd,
     amount_usd |-> usd, amount_in |-> NaNCell, amount_out |-> NaNCell]

\* swaps of the one pair: before and after its creation, or without instant
SwapRowSet(sides) ==
    {SwapRow("p1", t, w, sd, 100) :
        t \in {NaT, T0 - 5, T0 + 5}, w \in {"A", "B"}, sd \in sides}

\* swaps of a batch: of either pair, inside and outside the burst window
SwapRowSetBatch(sides) ==
    {SwapRow(p, t, "A", sd, 100) : p \in {"p1", "p2"}, t \in {T0 + 5, T0 + 130}, sd \in sides}

\* swaps tables with the side column (cells may be null) or without it
SwapTables ==
    {[side_col |-> TRUE, rows |-> r] : r \in SeqsUpTo(SwapRowSet({"buy", "sell", NullStr}), MaxSwaps)}
        \cup {[side_col |-> FALSE, rows |-> r] : r \in SeqsUpTo(SwapRowSet({NullStr}), MaxSwaps)}

SwapTablesBatch ==
    {[side_col |-> TRUE, rows |-> r] : r \in SeqsUpTo(SwapRowSetBatch({"buy"}), MaxSwaps - 1)}
        \cup {[side_col |-> FALSE, rows |-> r] : r \in SeqsUpTo(SwapRowSetBatch({NullStr}), MaxSwaps - 1)}

PwmRow(p, t, b, sl) == [pair_address |-> p, snapshot_ts |-> t, buys |-> b, sells |-> sl]

\* window-metrics rows inside the pair's first minutes
PwmRowSet == {PwmRow("p1", T0 + 60, 3, 1), PwmRow("p1", T0 + 60, 0, 0)}

\* window-metrics tables of no row or one row
PwmTables == {<<>>} \cup {<<r>> : r \in PwmRowSet}

\* in a batch: no row, or one after the window
PwmTablesBatch == {<<>>, <<PwmRow("p1", T0 + 1000, 3, 1)>>}

LpRow(p, t, a, v) == [pair_address |-> p, ts |-> t, action |-> a, value_usd |-> v]

\* liquidity events inside the pair's first minutes
LpRowSet == {LpRow("p1", T0 + 60, "add", 50), LpRow("p1", T0 + 60, "Remove", 50)}

\* liquidity-event tables of no row or one row
LpTables == {<<>>} \cup {<<r>> : r \in LpRowSet}

\* in a batch: no row, a removal inside the window, or one after it
LpTablesBatch == {<<>>, <<LpRow("p1", T0 + 60, "Remove", 50)>>, <<LpRow("p1", T0 + 1000, "remove", 50)>>}

Thresholds(ttf, v, u, c, tol, mc, lead) ==
    [ttf_ceil_s |-> ttf, min_swaps_per_min |-> v, min_uniques_10m |-> u,
     buy_ratio_center |-> c, buy_ratio_tol |-> tol, max_concentration |-> mc,
     leader_score_min |-> lead]

DefaultTh ==
    Thresholds(default_ttf_ceil_s, default_min_swaps_per_min, default_min_uniques_10m,
               default_buy_ratio_center, default_buy_ratio_tol, default_max_concentration,
               default_leader_score_min)

\* a configuration no slider produces
ZeroTh == Thresholds(default_ttf_ceil_s, 0, 0, default_buy_ratio_center, 0,
                     default_max_concentration, 0)

\* velocity floor of 1, everything else at its loosest
LooseTh == Thresholds(default_ttf_ceil_s, 1, 0, default_buy_ratio_center, 0,
                      default_max_concentration, 0)

ThSet == {DefaultTh, ZeroTh, LooseTh}

(***************************************************************************)
(* The data source and the fetch helpers                                   *)
(***************************************************************************)
RECURSIVE _chunk(_, _)
\* [lst[i:i+n] for i in range(0, len(lst), n)], n >= 1
_chunk(lst, n) ==
    IF Len(lst) = 0 THEN <<>>
    ELSE IF Len(lst) <= n THEN <<lst>>
    ELSE <<SubSeq(lst, 1, n)>> \o _chunk(SubSeq(lst, n + 1, Len(lst)), n)

InSeq(x, sq) == \E k \in 1..Len(sq) : sq[k] = x

\* fetch_table: the rows of a source table, held in the order of the request,
\* that pass the filter (the positions idx), cut at the row limit
fetch_table(rows, idx, limit) ==
    LET hit == Rows_at(rows, idx)
    IN  SubSeq(hit, 1, IF Len(hit) < limit THEN Len(hit) ELSE limit)

RECURSIVE concat_parts(_, _, _, _, _)
\* the loop over the batches: one request per batch for the rows whose
\* pair_address is in the batch and whose instant (times[k]) is at or after
\* since, each cut at limit, concatenated in batch order
concat_parts(rows, times, batches, since, limit) ==
    IF batches = <<>> THEN <<>>
    ELSE fetch_table(rows,
                     {k \in 1..Len(rows) :
                         /\ InSeq(rows[k].pair_address, batches[1])
                         /\ times[k] # NaT /\ times[k] >= since},
                     limit)
             \o concat_parts(rows, times, Tail(batches), since, limit)

ts_of(rows) == [k \in 1..Len(rows) |-> rows[k].ts]

snapshot_ts_of(rows) == [k \in 1..Len(rows) |-> rows[k].snapshot_ts]

\* the frame a request builds always carries the side column
fetch_swaps_for_pairs(rows, pair_addrs, since) ==
    [side_col |-> TRUE,
     rows |-> concat_parts(rows, ts_of(rows), _chunk(pair_addrs, CHUNK), since, limit_per_batch)]

fetch_pwm_for_pairs(rows, pair_addrs, since) ==
    concat_parts(rows, snapshot_ts_of(rows), _chunk(pair_addrs, CHUNK), since, limit_pwm)

fetch_lp_events_for_pairs(rows, pair_addrs, since) ==
    concat_parts(rows, ts_of(rows), _chunk(pair_addrs, CHUNK), since, limit_lp)

\* fault: snapshot_ts replaces a missing pair_created_at whatever the caller asks
eff_of_always(r, c) ==
    IF r.pair_created_at # NaT THEN r.pair_created_at ELSE r.snapshot_ts

\* eff of fetch_recent_pairs: pair_created_at, replaced where missing by
\* snapshot_ts only if the caller asks for it
eff_of(r, c) ==
    IF r.pair_created_at # NaT THEN r.pair_created_at
    ELSE IF c.use_snapshot_fallback THEN r.snapshot_ts ELSE NaT

\* the request: snapshot_ts >= since, at most max_pairs rows (the source table
\* is held in snapshot_ts descending order, nulls last)
recent_rows(rows, c) ==
    fetch_table(rows,
                {k \in 1..Len(rows) : rows[k].snapshot_ts # NaT /\ rows[k].snapshot_ts >= c.since},
                c.max_pairs)

fetch_recent_pairs(rows, c) ==
    LET got == recent_rows(rows, c)
        kept == Rows_at(got, {k \in 1..Len(got) :
                                 eff_of(got[k], c) # NaT /\ eff_of(got[k], c) >= c.min_ts})
    IN  IF got = <<>> THEN [eff_col |-> FALSE, rows |-> <<>>]
        ELSE [eff_col |-> TRUE,
              rows |-> [k \in 1..Len(kept) |->
                           [kept[k] EXCEPT !.effective_created_at = eff_of(kept[k], c)]]]

\* pairs["pair_address"].dropna().astype(str).unique().tolist()
pair_ids(rows) ==
    LET F[k \in 0..Len(rows)] ==
            IF k = 0 THEN <<>>
            ELSE IF rows[k].pair_address = NullStr \/ InSeq(rows[k].pair_address, F[k - 1])
                 THEN F[k - 1]
                 ELSE Append(F[k - 1], rows[k].pair_address)
    IN  F[Len(rows)]

\* since_iso: one minute before the earliest effective creation instant
since_iso(rows, c) ==
    LET effs == {rows[k].effective_created_at : k \in 1..Len(rows)} \ {NaT}
    IN  IF effs = {} THEN c.since ELSE MinOf(effs) - 60

(***************************************************************************)
(* The pass of the Early Leaders tab:                                      *)
(*   metrics = compute_early_metrics(pairs, swaps, pwm, lpev)              *)
(*   ranked  = score_and_classify(metrics, thresholds)                     *)
(***************************************************************************)
\* no data source: the tables are handed to the pass directly
NoDb == [pairs |-> <<>>, swaps |-> <<>>, pwm |-> <<>>, lp |-> <<>>]

\* the sidebar settings fetch_recent_pairs reads: the toggle, the row limit
\* and the two horizons as instants (now - recency_hours, now - max_age_minutes)
Settings(fb) ==
    [use_snapshot_fallback |-> fb, max_pairs |-> MaxPairs, since |-> T0 - 600, min_ts |-> T0 - 300]

\* the keyword arguments of compute_early_metrics no caller overrides
DefaultKw == [burst_window_s |-> burst_window_s]

\* no earlier run of the script
NoRun == [ran |-> FALSE, out |-> <<>>]

\* latest_pair_map_for_tokens not called
LatestIdle ==
    /\ token_db = <<>>
    /\ token_addrs = {}
    /\ maps = <<>>
    /\ batch_no = 0

\* the persistent file of the demo timer: absent, or holding something
\* fromisoformat cannot read
NoFile == [st |-> "absent", whole |-> 0, frac |-> 0]

GarbledFile == [st |-> "garbled", whole |-> 0, frac |-> 0]

\* the demo timer left out
DemoIdle ==
    /\ launch_file = NoFile
    /\ clock = 0
    /\ timer = <<>>
    /\ runs = 0

\* a session that has not rendered the live feed yet: no key is set
NoSession == [keys |-> {}, stream_data |-> <<>>, stream_initialized |-> FALSE]

\* the live feed left out
LiveIdle ==
    /\ net = "none"
    /\ buffer = <<>>
    /\ event_count = 0
    /\ received = <<>>
    /\ session_state = NoSession
    /\ shown = <<>>

Direct ==
    /\ db = NoDb
    /\ cfg = Settings(TRUE)
    /\ earlier = NoRun
    /\ LatestIdle /\ DemoIdle /\ LiveIdle

Start ==
    /\ Direct
    /\ kw = DefaultKw
    /\ th \in ThSet
    /\ metrics = <<>>
    /\ ranked = <<>>
    /\ i = 0
    /\ pc = "compute"

\* a batch of pairs with few events
InitBatch ==
    /\ pairs \in PairTables
    /\ swaps \in SwapTablesBatch
    /\ pwm \in PwmTablesBatch
    /\ lp_events \in LpTablesBatch
    /\ Start

\* one pair with more events (window metrics or liquidity events, not both),
\* under the default thresholds or all at zero
InitPair ==
    /\ pairs = OnePairTable
    /\ swaps \in SwapTables
    /\ pwm \in PwmTables
    /\ lp_events \in LpTables
    /\ pwm = <<>> \/ lp_events = <<>>
    /\ Start
    /\ th \in {DefaultTh, ZeroTh}

\* swaps of the one pair around the end of the burst window: 120 s and 125 s
\* after the first one
SwapTablesBurst ==
    {[side_col |-> TRUE, rows |-> r] :
        r \in SeqsUpTo({SwapRow("p1", t, "A", "buy", 100) : t \in {T0 + 5, T0 + 125, T0 + 130}},
                       MaxSwaps)}

\* one pair whose swaps lie around the end of the burst window
InitBurst ==
    /\ pairs = OnePairTable
    /\ swaps \in SwapTablesBurst
    /\ pwm = <<>>
    /\ lp_events = <<>>
    /\ Start

\* swaps without side value of the one pair and of another one, interleaved
SwapTablesCross ==
    {[side_col |-> TRUE, rows |-> r] :
        r \in SeqsUpTo({SwapRow(p, T0 + 5, "A", NullStr, 100) : p \in {"p1", "p2"}}, MaxSwaps)}

\* one pair among the events of another
InitCross ==
    /\ pairs = OnePairTable
    /\ swaps \in SwapTablesCross
    /\ pwm \in {<<>>, <<PwmRow("p2", T0 + 60, 3, 1)>>}
    /\ lp_events \in {<<>>, <<LpRow("p2", T0 + 60, "remove", 50)>>}
    /\ Start

\* swaps of the one pair around the end of the uniques window, by one trader
\* or without trader identity
SwapTablesUniq ==
    {[side_col |-> TRUE, rows |-> r] :
        r \in SeqsUpTo({SwapRow("p1", t, w, "buy", 100) :
                           t \in {T0 + 5, T0 + 605, T0 + 610}, w \in {"A", NullStr}},
                       MaxSwaps)}

\* one pair whose swaps lie around the end of the uniques window
InitUniq ==
    /\ pairs = OnePairTable
    /\ swaps \in SwapTablesUniq
    /\ pwm = <<>>
    /\ lp_events = <<>>
    /\ Start
    /\ th = DefaultTh

Init == InitBatch \/ InitPair \/ InitBurst \/ InitCross \/ InitUniq

\* if pairs.empty: return pairs.copy()
MetricsEmpty ==
    /\ pc = "compute"
    /\ pairs.rows = <<>>
    /\ metrics' = <<>>
    /\ pc' = "score"
    /\ UNCHANGED <<env, pairs, swaps, pwm, lp_events, th, ranked, i>>

\* out = pairs.copy() with effective_created_at and the sentinel columns
MetricsPrepare ==
    /\ pc = "compute"
    /\ pairs.rows # <<>>
    /\ metrics' = [j \in 1..Len(pairs.rows) |-> sentinel_row(pairs.eff_col, pairs.rows[j])]
    /\ i' = 1
    /\ pc' = "loop"
    /\ UNCHANGED <<env, pairs, swaps, pwm, lp_events, th, ranked>>

LoopStep ==
    /\ i' = i + 1
    /\ pc' = IF i = Len(metrics) THEN "score" ELSE "loop"

\* fault: a row without identifier or creation instant is dropped from out
SkipRowDropping ==
    /\ pc = "loop"
    /\ skipped(metrics[i])
    /\ metrics' = [j \in 1..(Len(metrics) - 1) |-> IF j < i THEN metrics[j] ELSE metrics[j + 1]]
    /\ i' = i
    /\ pc' = IF i = Len(metrics) THEN "score" ELSE "loop"
    /\ UNCHANGED <<env, pairs, swaps, pwm, lp_events, th, ranked>>

\* the loop body for a row without identifier or creation instant: continue
SkipRow ==
    /\ pc = "loop"
    /\ skipped(metrics[i])
    /\ LoopStep
    /\ UNCHANGED <<env, pairs, swaps, pwm, lp_events, th, metrics, ranked>>

\* fault: the counts of an earlier run are carried into the next one
ComputeRowCarry ==
    /\ pc = "loop"
    /\ ~skipped(metrics[i])
    /\ metrics' = [metrics EXCEPT ![i] =
           LET r == early_row_kw(@, swaps, pwm, lp_events, kw.burst_window_s)
           IN  IF earlier.ran
               THEN [r EXCEPT !.swaps_in_burst = Add(@, earlier.out[i].metrics.swaps_in_burst)]
               ELSE r]
    /\ LoopStep
    /\ UNCHANGED <<env, pairs, swaps, pwm, lp_events, th, ranked>>

\* the loop body for any other row
ComputeRow ==
    /\ pc = "loop"
    /\ ~skipped(metrics[i])
    /\ metrics' = [metrics EXCEPT ![i] = early_row_kw(@, swaps, pwm, lp_events, kw.burst_window_s)]
    /\ LoopStep
    /\ UNCHANGED <<env, pairs, swaps, pwm, lp_events, th, ranked>>

\* if df.empty: return df.copy()
ScoreEmpty ==
    /\ pc = "score"
    /\ metrics = <<>>
    /\ ranked' = <<>>
    /\ pc' = "done"
    /\ UNCHANGED <<env, pairs, swaps, pwm, lp_events, th, metrics, i>>

ScoreAndClassify ==
    /\ pc = "score"
    /\ metrics # <<>>
    /\ ranked' = [j \in 1..Len(metrics) |-> ranked_row(metrics[j], th)]
    /\ pc' = "done"
    /\ UNCHANGED <<env, pairs, swaps, pwm, lp_events, th, metrics, i>>

Next == MetricsEmpty \/ MetricsPrepare \/ SkipRow \/ ComputeRow \/ ScoreEmpty \/ ScoreAndClassify

Spec == Init /\ [][Next]_vars

(***************************************************************************)
(* score_and_classify on arbitrary metrics rows and thresholds             *)
(***************************************************************************)
MetricsRow(ttf, vel, uniq, br, conc, lprem) ==
    [sentinel_row(FALSE, PairRow("p1", T0, T0 + 30, NaT)) EXCEPT
        !.time_to_first_trade_s = ttf, !.swaps_per_min_burst = vel,
        !.uniq_traders_10m = uniq, !.buy_ratio_15m = br,
        !.top5_concentration = conc, !.lp_remove_usd_15 = lprem]

TtfSet == {NaN, Inf, Num(5, 1), Num(700, 1)}
VelSet == {NaN, Num(1, 2), Num(10, 1), Num(20, 1)}
UniqSet == {Zero, Num(25, 1), Num(50, 1)}
BrSet == {NaN, Zero, Num(3, 10), Num(11, 20), One}
ConcSet == {NaN, Num(7, 10), Num(3, 4), One}
LpRemSet == {Zero, Num(50, 1)}

MetricsRowSet ==
    {MetricsRow(ttf, vel, uniq, br, conc, lprem) :
        ttf \in TtfSet, vel \in VelSet, uniq \in UniqSet, br \in BrSet,
        conc \in ConcSet, lprem \in LpRemSet}

\* a table of no row, of one row, or of two rows that differ only in the
\* liquidity removed (none in the first, some in the second)
MetricsTables ==
    {<<>>} \cup {<<r>> : r \in MetricsRowSet}
        \cup {<<[r EXCEPT !.lp_remove_usd_15 = Zero], r>> :
                 r \in {x \in MetricsRowSet : x.lp_remove_usd_15 # Zero}}

ScoreThSet ==
    {Thresholds(default_ttf_ceil_s, v, u, default_buy_ratio_center, tol, mc, lead) :
        v \in {0, default_min_swaps_per_min}, u \in {0, default_min_uniques_10m},
        tol \in {0, default_buy_ratio_tol}, mc \in {default_max_concentration, 100},
        lead \in {0, default_leader_score_min}}

InitScore ==
    /\ Direct
    /\ kw = DefaultKw
    /\ pairs = [eff_col |-> FALSE, rows |-> <<>>]
    /\ swaps = [side_col |-> TRUE, rows |-> <<>>]
    /\ pwm = <<>>
    /\ lp_events = <<>>
    /\ th \in ScoreThSet
    /\ metrics \in MetricsTables
    /\ ranked = <<>>
    /\ i = 0
    /\ pc = "score"

NextScore == ScoreEmpty \/ ScoreAndClassify

SpecScore == InitScore /\ [][NextScore]_vars

(***************************************************************************)
(* The Early Leaders tab from the data source on:                          *)
(*   pairs = fetch_recent_pairs(...); swaps, pwm, lpev = fetch_*_for_pairs *)
(*   followed by the pass above                                            *)
(***************************************************************************)
\* rows of the pairs table of the source: created and observed (either pair),
\* observed only, created but never observed, older than the age horizon,
\* without identifier, neither instant
DbPairRowSet ==
    {PairRow("p1", T0, T0 + 30, NaT), PairRow("p2", T0, T0 + 30, NaT),
     PairRow("p1", NaT, T0 + 30, NaT), PairRow("p1", T0, NaT, NaT),
     PairRow("p2", T0 - 500, T0 + 30, NaT), PairRow(NullStr, T0, T0 + 30, NaT),
     PairRow("p2", NaT, NaT, NaT)}

\* order = snapshot_ts.desc.nullslast
SortedDesc(rows) ==
    \A k, l \in 1..Len(rows) :
        k < l => \/ rows[l].snapshot_ts = NaT
                 \/ (rows[k].snapshot_ts # NaT /\ rows[k].snapshot_ts >= rows[l].snapshot_ts)

\* order = ts.asc.nullslast
SortedAsc(times) ==
    \A k, l \in 1..Len(times) :
        k < l => \/ times[l] = NaT
                 \/ (times[k] # NaT /\ times[k] <= times[l])

DbPairs == {r \in SeqsUpTo(DbPairRowSet, MaxPairs) : SortedDesc(r)}

DbSwaps ==
    {r \in SeqsUpTo({SwapRow(p, t, "A", "buy", 100) : p \in {"p1", "p2"}, t \in {T0 + 5, T0 + 40}},
                    MaxSwaps) : SortedAsc(ts_of(r))}

DbPwm == {<<>>, <<PwmRow("p1", T0 + 60, 3, 1)>>}

DbLp == {<<>>, <<LpRow("p1", T0 + 60, "Remove", 50)>>}

InitFetch ==
    /\ db \in [pairs : DbPairs, swaps : DbSwaps, pwm : DbPwm, lp : DbLp]
    /\ cfg \in {Settings(fb) : fb \in BOOLEAN}
    /\ kw = DefaultKw
    /\ earlier = NoRun
    /\ LatestIdle /\ DemoIdle /\ LiveIdle
    /\ th = DefaultTh
    /\ pairs = [eff_col |-> FALSE, rows |-> <<>>]
    /\ swaps = [side_col |-> TRUE, rows |-> <<>>]
    /\ pwm = <<>>
    /\ lp_events = <<>>
    /\ metrics = <<>>
    /\ ranked = <<>>
    /\ i = 0
    /\ pc = "pairs"

\* pairs = fetch_recent_pairs(...); an empty result ends the tab
FetchRecentPairs ==
    /\ pc = "pairs"
    /\ pairs' = fetch_recent_pairs(db.pairs, cfg)
    /\ pc' = IF pairs'.rows = <<>> THEN "done" ELSE "swaps"
    /\ UNCHANGED <<env, swaps, pwm, lp_events, th, metrics, ranked, i>>

FetchSwaps ==
    /\ pc = "swaps"
    /\ swaps' = fetch_swaps_for_pairs(db.swaps, pair_ids(pairs.rows), since_iso(pairs.rows, cfg))
    /\ pc' = "pwm"
    /\ UNCHANGED <<env, pairs, pwm, lp_events, th, metrics, ranked, i>>

FetchPwm ==
    /\ pc = "pwm"
    /\ pwm' = fetch_pwm_for_pairs(db.pwm, pair_ids(pairs.rows), since_iso(pairs.rows, cfg))
    /\ pc' = "lp"
    /\ UNCHANGED <<env, pairs, swaps, lp_events, th, metrics, ranked, i>>

FetchLp ==
    /\ pc = "lp"
    /\ lp_events' = fetch_lp_events_for_pairs(db.lp, pair_ids(pairs.rows), since_iso(pairs.rows, cfg))
    /\ pc' = "compute"
    /\ UNCHANGED <<env, pairs, swaps, pwm, th, metrics, ranked, i>>

NextFetch ==
    \/ FetchRecentPairs \/ FetchSwaps \/ FetchPwm \/ FetchLp
    \/ MetricsPrepare \/ SkipRow \/ ComputeRow \/ ScoreAndClassify

SpecFetch == InitFetch /\ [][NextFetch]_vars

(***************************************************************************)
(* The script run twice on the same tables and thresholds                  *)
(***************************************************************************)
InitRerun ==
    /\ pairs \in PairTables
    /\ swaps \in SwapTablesBatch
    /\ pwm = <<>>
    /\ lp_events \in LpTablesBatch
    /\ Direct
    /\ kw = DefaultKw
    /\ th = DefaultTh
    /\ metrics = <<>>
    /\ ranked = <<>>
    /\ i = 0
    /\ pc = "compute"

\* the script reruns: the output of the run that ended is set aside and the
\* pass starts over on the same inputs
Rerun ==
    /\ pc = "done"
    /\ ~earlier.ran
    /\ earlier' = [ran |-> TRUE, out |-> ranked]
    /\ pc' = "compute"
    /\ UNCHANGED <<db, cfg, kw, latest_vars, demo_vars, live_vars>>
    /\ UNCHANGED <<pairs, swaps, pwm, lp_events, th, metrics, ranked, i>>

NextRerun == Next \/ Rerun

SpecRerun == InitRerun /\ [][NextRerun]_vars

(***************************************************************************)
(* compute_early_metrics with burst_window_s overridden, then              *)
(* score_and_classify under any thresholds                                 *)
(***************************************************************************)
InitParams ==
    /\ Direct
    /\ kw \in {[burst_window_s |-> b] : b \in {0, burst_window_s}}
    /\ th \in ScoreThSet
    /\ pairs = OnePairTable
    /\ swaps \in SwapTablesBurst
    /\ pwm = <<>>
    /\ lp_events \in LpTables
    /\ metrics = <<>>
    /\ ranked = <<>>
    /\ i = 0
    /\ pc = "compute"

NextParams == MetricsPrepare \/ ComputeRow \/ ScoreAndClassify

SpecParams == InitParams /\ [][NextParams]_vars

(***************************************************************************)
(* compute_early_metrics on swaps with several amount fields and more than *)
(* five traders                                                            *)
(***************************************************************************)
AmountRow(w, sd, usd, ain, aout) ==
    [pair_address |-> "p1", ts |-> T0 + 5, trader_wallet |-> w, side |-> sd,
     amount_usd |-> usd, amount_in |-> ain, amount_out |-> aout]

\* the amount cells of one swap: none, one of the three fields, or a zero
AmountCells ==
    {<<NaNCell, NaNCell, NaNCell>>, <<300, NaNCell, NaNCell>>, <<NaNCell, 5, NaNCell>>,
     <<NaNCell, NaNCell, 7>>, <<0, NaNCell, NaNCell>>}

AmountRowSet ==
    {AmountRow(w, sd, a[1], a[2], a[3]) : w \in {"A", NullStr}, sd \in {"buy", "sell"}, a \in AmountCells}

\* five more buys, one per trader, all with the same amount field (or none)
FiveBuys(usd, ain) ==
    [k \in 1..top_n |->
        AmountRow(<<"t1", "t2", "t3", "t4", "t5">>[k], "buy", usd, ain, NaNCell)]

FiveBuysSet ==
    {<<>>, FiveBuys(100, NaNCell), FiveBuys(NaNCell, 100), FiveBuys(NaNCell, NaNCell)}

InitConc ==
    /\ Direct
    /\ kw = DefaultKw
    /\ th = DefaultTh
    /\ pairs = OnePairTable
    /\ swaps \in {[side_col |-> TRUE, rows |-> h \o f] :
                     h \in SeqsUpTo(AmountRowSet, MaxSwaps), f \in FiveBuysSet}
    /\ pwm = <<>>
    /\ lp_events = <<>>
    /\ metrics = <<>>
    /\ ranked = <<>>
    /\ i = 0
    /\ pc = "compute"

NextConc == MetricsPrepare \/ ComputeRow \/ ScoreAndClassify

SpecConc == InitConc /\ [][NextConc]_vars

(***************************************************************************)
(* Properties                                                              *)
(***************************************************************************)
Done == pc = "done"

Rows == 1..Len(ranked)

LoserLabels == {"Loser (no early trades)", "Loser (early LP remove)", "Loser"}

Labels == {"Early Leader", "Hype / Risky"} \cup LoserLabels

\* C1: a row is labeled "Early Leader" exactly when velocity_ok, uniques_ok,
\* buy_ratio_ok and concentration_ok all hold and early_score >=
\* leader_score_min; a row whose top5_concentration exceeds max_concentration
\* is never labeled "Early Leader".
C1_EarlyLeaderIff ==
    Done =>
        \A j \in Rows :
            LET r == ranked[j]
                m == r.metrics
            IN  /\ (r.classification = "Early Leader")
                      <=> (/\ gate_velocity(m, th) /\ gate_uniques(m, th)
                           /\ gate_br(m, th) /\ gate_conc(m, th)
                           /\ r.early_score >= 10 * th.leader_score_min)
                /\ Gt(m.top5_concentration, Num(th.max_concentration, 100))
                      => r.classification # "Early Leader"

\* a row that passes every other Early Leader condition but breaches the
\* concentration ceiling, and is routed to Hype / Risky
C1_Witness ==
    /\ Done
    /\ \E j \in Rows :
          LET r == ranked[j]
              m == r.metrics
          IN  /\ Gt(m.top5_concentration, Num(th.max_concentration, 100))
              /\ gate_velocity(m, th) /\ gate_uniques(m, th) /\ gate_br(m, th)
              /\ r.early_score >= 10 * th.leader_score_min
              /\ th.leader_score_min > 0
              /\ r.classification = "Hype / Risky"

\* C2: first match wins in the order Early Leader, Hype / Risky, Loser (no
\* early trades), Loser (early LP remove), Loser: a row that is not Early
\* Leader is "Hype / Risky" exactly when early_score >= 35 or (velocity_ok and
\* (uniques_ok or buy_ratio_ok)); no row with early_score >= 35 gets a Loser
\* label, whatever its tradeable and lp_ok gates are.
C2_HypeIff ==
    Done =>
        \A j \in Rows :
            LET r == ranked[j]
                m == r.metrics
            IN  /\ r.classification # "Early Leader" =>
                      ((r.classification = "Hype / Risky")
                          <=> (\/ r.early_score >= 10 * hype_score_min
                               \/ (gate_velocity(m, th)
                                     /\ (gate_uniques(m, th) \/ gate_br(m, th)))))
                /\ r.early_score >= 10 * hype_score_min => r.classification \notin LoserLabels

\* a row scoring at least 35 whose tradeable gate fails, labeled Hype / Risky
C2_Witness ==
    /\ Done
    /\ \E j \in Rows :
          /\ ranked[j].early_score >= 10 * hype_score_min
          /\ ~gate_tradeable(ranked[j].metrics, th)
          /\ ranked[j].classification = "Hype / Risky"

ReasonParts(a, b, c) ==
    {a, b, c, join(<<a, b>>), join(<<a, c>>), join(<<b, c>>), join(<<a, b, c>>)}

Reasons ==
    {"Velocity+Uniques+Balance+Dispersion", "Borderline", "No trade <=10m",
     "LP removed <=15m", "Weak"}
        \cup ReasonParts("Concentration", "Uniques", "BuyRatio")
        \cup ReasonParts("Low velocity", "Low uniques", "Unbalanced flow")

\* C3: compute_early_metrics followed by score_and_classify returns one output
\* row per input pair, in order (none dropped, none added), whatever event
\* tables are empty, and each output row carries one classification out of the
\* five labels and one reason string.
C3_RowPreservation ==
    /\ pc \in {"score", "done"} =>
          /\ Len(metrics) = Len(pairs.rows)
          /\ \A j \in 1..Len(metrics) :
                /\ metrics[j].pair_address = pairs.rows[j].pair_address
                /\ metrics[j].pair_created_at = pairs.rows[j].pair_created_at
                /\ metrics[j].snapshot_ts = pairs.rows[j].snapshot_ts
    /\ Done =>
          /\ Len(ranked) = Len(pairs.rows)
          /\ \A j \in Rows :
                /\ ranked[j].metrics = metrics[j]
                /\ ranked[j].classification \in Labels
                /\ ranked[j].reason \in Reasons

\* two pairs, one of them skipped by the loop, with swaps present and the
\* other event tables empty
C3_Witness ==
    /\ Done
    /\ Len(ranked) = 2
    /\ \E j \in Rows : skipped(metrics[j])
    /\ \E j \in Rows : ~skipped(metrics[j])
    /\ swaps.rows # <<>> /\ pwm = <<>> /\ lp_events = <<>>

\* C4: for every metrics row (null buy ratio or concentration, +inf or NaN
\* time to first trade included) and every threshold set, early_score is a
\* number within [0, 100], never NaN.
C4_ScoreRange ==
    Done => \A j \in Rows : ranked[j].early_score # NaNCell /\ ranked[j].early_score \in 0..1000

\* a scored row whose buy ratio, concentration and time to first trade are all
\* NaN, under thresholds of zero
C4_Witness ==
    /\ Done
    /\ th.min_swaps_per_min = 0 /\ th.buy_ratio_tol = 0
    /\ \E j \in Rows :
          LET m == ranked[j].metrics
          IN  /\ IsNaN(m.buy_ratio_15m) /\ IsNaN(m.top5_concentration)
              /\ IsNaN(m.time_to_first_trade_s)
              /\ ranked[j].early_score \in 0..1000

\* the swap rows of pair p
swaps_of(p) == {k \in 1..Len(swaps.rows) : swaps.rows[k].pair_address = p}

\* the instants of p's swaps at or after the instant eff
post_instants(p, eff) ==
    {swaps.rows[k].ts : k \in {x \in swaps_of(p) : swaps.rows[x].ts # NaT /\ swaps.rows[x].ts >= eff}}

ZeroSwapScore(m) == IF Gt(m.lp_remove_usd_15, Zero) THEN 15 ELSE 150

\* C5 as stated: every pair without swaps gets time_to_first_trade_s = +inf
\* and the label "Loser (no early trades)", under every threshold set.
C5_AsStated ==
    Done =>
        \A j \in Rows :
            swaps_of(metrics[j].pair_address) = {} =>
                /\ metrics[j].time_to_first_trade_s = Inf
                /\ ranked[j].classification = "Loser (no early trades)"
                /\ ranked[j].early_score # NaNCell

\* C5, amended: a pair with a string identifier and an effective creation
\* instant that has no swaps gets time_to_first_trade_s = +inf and, under every
\* threshold set with min_swaps_per_min > 0, the label "Loser (no early
\* trades)" with early_score 15.0 (1.5 when liquidity was removed in the
\* window): velocity and uniques sub-scores 0, the other two neutral.
C5_ZeroSwaps ==
    Done =>
        \A j \in Rows :
            (swaps_of(metrics[j].pair_address) = {} /\ ~skipped(metrics[j])) =>
                /\ metrics[j].time_to_first_trade_s = Inf
                /\ th.min_swaps_per_min > 0 =>
                      /\ ranked[j].classification = "Loser (no early trades)"
                      /\ ranked[j].early_score = ZeroSwapScore(metrics[j])

\* a pair without swaps whose liquidity was removed in the window, scored
\* under a positive velocity floor with every other threshold at zero
C5_Witness ==
    /\ Done
    /\ th = LooseTh
    /\ swaps.rows # <<>>
    /\ \E j \in Rows :
          /\ swaps_of(metrics[j].pair_address) = {} /\ ~skipped(metrics[j])
          /\ Gt(metrics[j].lp_remove_usd_15, Zero)
          /\ ranked[j].classification = "Loser (no early trades)"

Tier(c) == CASE c = "Early Leader" -> 3 [] c = "Hype / Risky" -> 2 [] OTHER -> 1

\* two scored rows that differ only in lp_remove_usd_15: 0 in the first, > 0
\* in the second
LpTwins ==
    /\ Done
    /\ Len(ranked) = 2
    /\ ranked[1].metrics.lp_remove_usd_15 = Zero
    /\ Gt(ranked[2].metrics.lp_remove_usd_15, Zero)
    /\ ranked[1].metrics = [ranked[2].metrics EXCEPT !.lp_remove_usd_15 = Zero]

\* C6 as stated: the row with removal scores no higher and gets a different,
\* lower-tier classification.
C6_AsStated ==
    LpTwins =>
        /\ ranked[2].early_score <= ranked[1].early_score
        /\ ranked[2].classification # ranked[1].classification
        /\ Tier(ranked[2].classification) < Tier(ranked[1].classification)

\* C6, amended: of two rows identical but for lp_remove_usd_15 (0 against > 0),
\* the one with removal has an early_score no higher than the other's and a
\* classification of the same or a lower tier (Early Leader > Hype / Risky >
\* the Loser labels), never a higher one.
C6_LpMonotone ==
    LpTwins =>
        /\ ranked[2].early_score <= ranked[1].early_score
        /\ Tier(ranked[2].classification) <= Tier(ranked[1].classification)

\* twins where the removal costs the row its Early Leader label
C6_Witness ==
    /\ LpTwins
    /\ th.leader_score_min > 0
    /\ ranked[1].classification = "Early Leader"
    /\ ranked[2].classification = "Hype / Risky"
    /\ ranked[2].early_score < ranked[1].early_score

\* the window-metrics rows of pair p with snapshot_ts in [eff, eff + 15 min]
pwm_in_window(p, eff) ==
    {k \in 1..Len(pwm) :
        /\ pwm[k].pair_address = p
        /\ pwm[k].snapshot_ts # NaT
        /\ pwm[k].snapshot_ts >= eff
        /\ pwm[k].snapshot_ts <= eff + 60 * pwm_window_total_m}

pwm_sum_buys(S) == SumOver([k \in 1..Len(pwm) |-> IF pwm[k].buys = NaNCell THEN 0 ELSE pwm[k].buys], S)

pwm_sum_sells(S) == SumOver([k \in 1..Len(pwm) |-> IF pwm[k].sells = NaNCell THEN 0 ELSE pwm[k].sells], S)

\* no swap of p carries a side value
no_side(p) == \A k \in swaps_of(p) : swaps.rows[k].side = NullStr

\* C7: a traded pair whose swaps all have a null side (the column is there,
\* every cell is null) and that has window-metrics rows in [effective_created_at, + 15 min] gets buy_ratio_15m =
\* sum(buys) / (sum(buys) + sum(sells)) of those rows; with no window-metrics
\* row there either, buy_ratio_15m is null and buy_ratio_ok is true.
C7_BuyRatioFallback ==
    Done =>
        \A j \in Rows :
            LET m == metrics[j]
                p == m.pair_address
                eff == m.effective_created_at
                W == pwm_in_window(p, eff)
            IN  (~skipped(m) /\ post_instants(p, eff) # {} /\ swaps.side_col /\ no_side(p)) =>
                    /\ (W # {} /\ pwm_sum_buys(W) + pwm_sum_sells(W) > 0) =>
                          m.buy_ratio_15m
                              = Num(pwm_sum_buys(W), pwm_sum_buys(W) + pwm_sum_sells(W))
                    /\ W = {} => (IsNaN(m.buy_ratio_15m) /\ gate_br(m, th))

\* the buy and sell counts the ratio of a traded pair is taken from are both 0
zero_counts(m) ==
    LET p == m.pair_address
        eff == m.effective_created_at
        W == pwm_in_window(p, eff)
    IN  /\ ~skipped(m)
        /\ post_instants(p, eff) # {}
        /\ ~swaps.side_col
        /\ W # {}
        /\ pwm_sum_buys(W) = 0
        /\ pwm_sum_sells(W) = 0

\* C8: whenever the buy count and the sell count behind a pair's ratio are
\* both zero, buy_ratio_15m is null (NaN), not a number.
C8_ZeroCountsNull ==
    Done => \A j \in Rows : zero_counts(metrics[j]) => IsNaN(metrics[j].buy_ratio_15m)

\* the input tables without the swaps of p made before the instant eff
without_early_swaps(p, eff) ==
    [swaps EXCEPT !.rows =
        Rows_at(@, {k \in 1..Len(@) : ~(@[k].pair_address = p /\ @[k].ts # NaT /\ @[k].ts < eff)})]

expected_first(p, eff) == IF post_instants(p, eff) = {} THEN NaT ELSE MinOf(post_instants(p, eff))

first_trade_ok(m) ==
    LET first == expected_first(m.pair_address, m.effective_created_at)
    IN  /\ m.first_trade_ts = first
        /\ m.time_to_first_trade_s
              = IF first = NaT THEN Inf ELSE Num(first - m.effective_created_at, 1)

\* C9 as stated: for every pair, first_trade_ts is the least ts among its swaps
\* at or after effective_created_at (null if none) and time_to_first_trade_s
\* is the difference in seconds, +inf when there is no first trade.
C9_AsStated == Done => \A j \in Rows : first_trade_ok(metrics[j])

\* C9, amended: for every pair with a string identifier and an effective
\* creation instant, the swaps before that instant contribute to no feature
\* (the row equals the one computed without them), first_trade_ts is the least
\* ts among the pair's swaps at or after it (null if none) and
\* time_to_first_trade_s is the difference in seconds (>= 0), +inf when there
\* is no first trade; a pair lacking either keeps time_to_first_trade_s = NaN.
C9_PostCreationOnly ==
    Done =>
        \A j \in Rows :
            LET m == metrics[j]
            IN  IF skipped(m)
                THEN IsNaN(m.time_to_first_trade_s) /\ m.first_trade_ts = NaT
                ELSE /\ first_trade_ok(m)
                     /\ Geq(m.time_to_first_trade_s, Zero)
                     /\ m = early_row(sentinel_row(pairs.eff_col, pairs.rows[j]),
                                      without_early_swaps(m.pair_address, m.effective_created_at),
                                      pwm, lp_events)

\* a pair with one swap before its creation instant and one after it
C9_Witness ==
    /\ Done
    /\ \E j \in Rows :
          LET m == metrics[j]
          IN  /\ ~skipped(m)
              /\ \E k \in swaps_of(m.pair_address) :
                    swaps.rows[k].ts # NaT /\ swaps.rows[k].ts < m.effective_created_at
              /\ m.first_trade_ts # NaT
              /\ m.time_to_first_trade_s = Num(5, 1)

\* pair created at T0, one swap at T0 + 5 s (buy, 100 USD, trader A), no other
\* swap, no liquidity event, default thresholds
Scenario ==
    /\ pairs = OnePairTable
    /\ swaps = [side_col |-> TRUE, rows |-> <<SwapRow("p1", T0 + 5, "A", "buy", 100)>>]
    /\ lp_events = <<>>
    /\ th = DefaultTh

\* C10: in the scenario the features are time_to_first_trade_s = 5,
\* swaps_in_burst = 1, swaps_per_min_burst = 0.5, uniq_traders_10m = 1,
\* buy_ratio_15m = 1.0, top5_concentration = 1.0; velocity_ok is false and the
\* label is "Loser" (early_score is below 35), not "Early Leader".
C10_Scenario ==
    (Done /\ Scenario) =>
        LET m == metrics[1]
        IN  /\ Len(ranked) = 1
            /\ m.time_to_first_trade_s = Num(5, 1)
            /\ m.swaps_in_burst = One
            /\ m.swaps_per_min_burst = Half
            /\ m.uniq_traders_10m = One
            /\ m.buy_ratio_15m = One
            /\ m.top5_concentration = One
            /\ ~gate_velocity(m, th)
            /\ ranked[1].early_score < 10 * hype_score_min
            /\ ranked[1].classification = "Loser"

C10_Witness == Done /\ Scenario /\ ranked[1].classification = "Loser"

\* the table compute_early_metrics returns for the given input tables
features(pairs_tab, sw_tab, pwm_rows, lp_rows) ==
    [j \in 1..Len(pairs_tab.rows) |->
        LET s == sentinel_row(pairs_tab.eff_col, pairs_tab.rows[j])
        IN  IF skipped(s) THEN s ELSE early_row(s, sw_tab, pwm_rows, lp_rows)]

\* one request for all the identifiers of the fetched pairs at once
single_call(rows, times, limit) ==
    concat_parts(rows, times, <<pair_ids(pairs.rows)>>, since_iso(pairs.rows, cfg), limit)

\* C11: the feature table computed from the event tables fetched chunk by
\* chunk (each request with its own row limit) and concatenated equals the one
\* computed from the tables fetched in a single request for all identifiers.
C11_ChunkingTransparent ==
    (Done /\ pairs.rows # <<>>) =>
        metrics = features(pairs,
                           [side_col |-> TRUE,
                            rows |-> single_call(db.swaps, ts_of(db.swaps), limit_per_batch)],
                           single_call(db.pwm, snapshot_ts_of(db.pwm), limit_pwm),
                           single_call(db.lp, ts_of(db.lp), limit_lp))

own_rows(rows, p) == Rows_at(rows, {k \in 1..Len(rows) : rows[k].pair_address = p})

\* the output row of the pair row r computed from r and p's own events alone
alone(r) ==
    LET s == sentinel_row(pairs.eff_col, r)
        p == s.pair_address
    IN  ranked_row(IF skipped(s) THEN s
                   ELSE early_row(s, [swaps EXCEPT !.rows = own_rows(@, p)],
                                  own_rows(pwm, p), own_rows(lp_events, p)),
                   th)

\* C13: the output row of a pair (features, parity-based buy ratio included,
\* early_score, classification and reason) is the one computed from the pair's
\* own row and the events carrying its pair_address alone: the rows and the
\* events of other pairs change nothing in it.
C13_CrossPairIndependence == Done => \A j \in Rows : ranked[j] = alone(pairs.rows[j])

\* a pair whose one swap, without side value, comes after a swap of another
\* pair in the swaps table: the parity assignment counts it as the first
C13_Witness ==
    /\ Done
    /\ Len(swaps.rows) = 2
    /\ swaps.rows[1].pair_address = "p2"
    /\ swaps.rows[2].pair_address = "p1"
    /\ swaps.rows[2].side = NullStr
    /\ \E j \in Rows :
          /\ metrics[j].pair_address = "p1"
          /\ metrics[j].swaps_in_burst = One
          /\ metrics[j].buy_ratio_15m = One
          /\ ranked[j] = alone(pairs.rows[j])

Fetched == pc # "pairs"

\* pair_created_at when present, snapshot_ts otherwise
fallback_instant(r) == IF r.pair_created_at # NaT THEN r.pair_created_at ELSE r.snapshot_ts

\* C14 as stated: every pair of the source with at least one of the two
\* instants reaches compute_early_metrics, with effective_created_at =
\* pair_created_at when present and snapshot_ts otherwise, whatever the settings.
C14_AsStated ==
    Fetched =>
        \A k \in 1..Len(db.pairs) :
            fallback_instant(db.pairs[k]) # NaT =>
                \E j \in 1..Len(pairs.rows) :
                    pairs.rows[j]
                        = [db.pairs[k] EXCEPT !.effective_created_at = fallback_instant(db.pairs[k])]

\* the rows of the source fetch_recent_pairs lets through: observed within the
\* recency horizon, and created (or, with the toggle on and no creation
\* instant, observed) within the age horizon
admitted(r) ==
    /\ r.snapshot_ts # NaT /\ r.snapshot_ts >= cfg.since
    /\ \/ r.pair_created_at # NaT /\ r.pair_created_at >= cfg.min_ts
       \/ r.pair_created_at = NaT /\ cfg.use_snapshot_fallback /\ r.snapshot_ts >= cfg.min_ts

\* C14, amended: every pair that reaches compute_early_metrics through
\* fetch_recent_pairs has effective_created_at = pair_created_at when present
\* and snapshot_ts otherwise, and keeps it through compute_early_metrics; the
\* snapshot fallback applies only with use_snapshot_fallback on. Up to the
\* max_pairs limit, the pairs that reach it are those observed within the
\* recency horizon whose pair_created_at, or with the toggle on and no
\* pair_created_at whose snapshot_ts, lies within the age horizon: a pair
\* without pair_created_at is excluded when the toggle is off, as is a pair
\* without snapshot_ts.
C14_EffectiveInstant ==
    /\ Fetched =>
          /\ \A j \in 1..Len(pairs.rows) :
                LET r == pairs.rows[j]
                IN  /\ r.effective_created_at # NaT
                    /\ r.effective_created_at = fallback_instant(r)
                    /\ r.pair_created_at = NaT => cfg.use_snapshot_fallback
          /\ Len(db.pairs) <= cfg.max_pairs =>
                [j \in 1..Len(pairs.rows) |-> [pairs.rows[j] EXCEPT !.effective_created_at = NaT]]
                    = Rows_at(db.pairs, {k \in 1..Len(db.pairs) : admitted(db.pairs[k])})
    /\ Done =>
          \A j \in 1..Len(metrics) :
              metrics[j].effective_created_at = pairs.rows[j].effective_created_at

\* the toggle off: a pair observed but without creation instant is left out
\* while another pair is computed and scored
C14_Witness ==
    /\ Done
    /\ ~cfg.use_snapshot_fallback
    /\ \E k \in 1..Len(db.pairs) :
          db.pairs[k].pair_created_at = NaT /\ db.pairs[k].snapshot_ts # NaT
    /\ Len(ranked) = 1
    /\ ranked[1].metrics.effective_created_at = ranked[1].metrics.pair_created_at

\* the row got neither "Early Leader" nor "Hype / Risky"
fell_through(r) == r.classification \notin {"Early Leader", "Hype / Risky"}

\* C15 as stated: the reasons of the two variants are "No trade within
\* horizon." and "LP removed within window.".
C15_AsStated ==
    Done =>
        \A j \in Rows :
            LET r == ranked[j]
            IN  fell_through(r) =>
                    /\ ~gate_tradeable(r.metrics, th) =>
                          /\ r.classification = "Loser (no early trades)"
                          /\ r.reason = "No trade within horizon."
                    /\ (gate_tradeable(r.metrics, th) /\ ~gate_lp_ok(r.metrics)) =>
                          /\ r.classification = "Loser (early LP remove)"
                          /\ r.reason = "LP removed within window."

\* C15, amended: a row that is neither Early Leader nor Hype / Risky and whose
\* tradeable gate is false is labeled "Loser (no early trades)" with reason
\* "No trade <=10m", even when LP was also removed; one that is tradeable but
\* has lp_ok false is labeled "Loser (early LP remove)" with reason
\* "LP removed <=15m".
C15_LoserVariants ==
    Done =>
        \A j \in Rows :
            LET r == ranked[j]
            IN  fell_through(r) =>
                    /\ ~gate_tradeable(r.metrics, th) =>
                          /\ r.classification = "Loser (no early trades)"
                          /\ r.reason = "No trade <=10m"
                    /\ (gate_tradeable(r.metrics, th) /\ ~gate_lp_ok(r.metrics)) =>
                          /\ r.classification = "Loser (early LP remove)"
                          /\ r.reason = "LP removed <=15m"

\* a row that never traded and lost its liquidity, next to its twin without
\* removal: both are "Loser (no early trades)"
C15_Witness ==
    /\ LpTwins
    /\ ~gate_tradeable(ranked[2].metrics, th)
    /\ ~gate_lp_ok(ranked[2].metrics)
    /\ ranked[2].classification = "Loser (no early trades)"
    /\ ranked[2].reason = "No trade <=10m"
    /\ ranked[1].classification = "Loser (no early trades)"

\* the liquidity events of pair p with ts in [eff, eff + 15 min] whose action
\* is act, case-insensitively
lp_in_window(p, eff, act) ==
    {k \in 1..Len(lp_events) :
        /\ lp_events[k].pair_address = p
        /\ lp_events[k].ts # NaT
        /\ lp_events[k].ts >= eff
        /\ lp_events[k].ts <= eff + 60 * lp_span_m
        /\ Lower(lp_events[k].action) = act}

lp_sum(S) ==
    SumOver([k \in 1..Len(lp_events) |->
                IF lp_events[k].value_usd = NaNCell THEN 0 ELSE lp_events[k].value_usd], S)

\* C16: for every pair with an effective creation instant, with or without a
\* first trade, lp_add_usd_15 is the sum of value_usd over the pair's liquidity
\* events with ts in [effective_created_at, effective_created_at + 15 min]
\* whose action is "add" case-insensitively, lp_remove_usd_15 the same for
\* "remove"; both are 0 when no event falls in the window.
C16_LpTotals ==
    pc \in {"score", "done"} =>
        \A j \in 1..Len(metrics) :
            LET m == metrics[j]
                eff == m.effective_created_at
            IN  eff # NaT =>
                    /\ m.lp_add_usd_15 = Num(lp_sum(lp_in_window(m.pair_address, eff, "add")), 1)
                    /\ m.lp_remove_usd_15
                          = Num(lp_sum(lp_in_window(m.pair_address, eff, "remove")), 1)

\* a pair without any swap at or after its creation whose liquidity event,
\* written "Remove", is counted
C16_Witness ==
    /\ Done
    /\ \E j \in Rows :
          /\ metrics[j].effective_created_at # NaT
          /\ metrics[j].first_trade_ts = NaT
          /\ metrics[j].time_to_first_trade_s = Inf
          /\ \E k \in 1..Len(lp_events) : lp_events[k].action = "Remove"
          /\ metrics[j].lp_remove_usd_15 = Num(50, 1)
          /\ metrics[j].lp_add_usd_15 = Zero

\* buy_ratio_ok as the claim has it: true for a null ratio, else true exactly
\* within [center - tolerance, center + tolerance]
buy_ratio_ok(m, t) ==
    \/ IsNaN(m.buy_ratio_15m)
    \/ /\ Leq(Num(t.buy_ratio_center - t.buy_ratio_tol, 100), m.buy_ratio_15m)
       /\ Leq(m.buy_ratio_15m, Num(t.buy_ratio_center + t.buy_ratio_tol, 100))

\* C17: buy_ratio_ok is true when buy_ratio_15m is null and otherwise exactly
\* when it lies within center +/- tolerance, bounds included; concentration_ok
\* takes a null top5_concentration as 0.50 and is true exactly when the value
\* is <= max_concentration; tradeable is true exactly when
\* time_to_first_trade_s <= ttf_ceil_s; lp_ok exactly when lp_remove_usd_15 is 0.
C17_GateHandling ==
    Done =>
        \A j \in Rows :
            LET m == ranked[j].metrics
            IN  /\ gate_br(m, th) <=> buy_ratio_ok(m, th)
                /\ gate_conc(m, th)
                      <=> Leq(IF IsNaN(m.top5_concentration) THEN Half ELSE m.top5_concentration,
                              Num(th.max_concentration, 100))
                /\ gate_tradeable(m, th) <=> Leq(m.time_to_first_trade_s, Num(th.ttf_ceil_s, 1))
                /\ gate_lp_ok(m) <=> (m.lp_remove_usd_15 = Zero)

\* a sub-score is a number within [0, 1]
unit(x) == IsNum(x) /\ Leq(Zero, x) /\ Leq(x, One)

\* C18: with buy_ratio_tol = 0, min_swaps_per_min = 0 or min_uniques_10m = 0
\* in score_and_classify, or burst_window_s = 0 in compute_early_metrics, the
\* divisors are floored, every sub-score is a number within [0, 1], and every
\* pair gets an early_score within [0, 100] that is not NaN, one of the five
\* labels and a reason.
C18_NonsenseThresholds ==
    Done =>
        \A j \in Rows :
            LET m == ranked[j].metrics
            IN  /\ ~IsNaN(m.swaps_per_min_burst)
                /\ unit(s_vel(m, th)) /\ unit(s_uniq(m, th))
                /\ unit(s_br(m, th)) /\ unit(s_conc(m))
                /\ ranked[j].early_score # NaNCell
                /\ ranked[j].early_score \in 0..1000
                /\ ranked[j].classification \in Labels
                /\ ranked[j].reason \in Reasons

\* every nonsensical value at once, on a pair that traded
C18_Witness ==
    /\ Done
    /\ kw.burst_window_s = 0
    /\ th.min_swaps_per_min = 0 /\ th.min_uniques_10m = 0 /\ th.buy_ratio_tol = 0
    /\ \E j \in Rows :
          /\ Gt(ranked[j].metrics.swaps_in_burst, Zero)
          /\ ranked[j].early_score \in 0..1000
          /\ ranked[j].classification \in Labels

\* C19: for a row with lp_remove_usd_15 > 0 the weighted sum raw = 0.35*s_vel
\* + 0.35*s_uniq + 0.10*s_br + 0.20*s_conc, a number within [0, 1], is
\* multiplied by 0.1, so early_score = round(10 * raw, 1); it never exceeds
\* 10.0, and the row is labeled "Early Leader" only if leader_score_min <= 10.
C19_LpHaircut ==
    Done =>
        \A j \in Rows :
            LET m == ranked[j].metrics
                raw == raw_score(m, th)
            IN  Gt(m.lp_remove_usd_15, Zero) =>
                    /\ unit(raw)
                    /\ ranked[j].early_score = RoundHalfEven(Mul(raw, Num(100, 1)))
                    /\ ranked[j].early_score <= 100
                    /\ ranked[j].classification = "Early Leader" => th.leader_score_min <= 10

\* a row with removal that keeps a score above zero and, with
\* leader_score_min = 0, the Early Leader label
C19_Witness ==
    /\ Done
    /\ th.leader_score_min = 0
    /\ th.min_swaps_per_min > 0
    /\ \E j \in Rows :
          /\ Gt(ranked[j].metrics.lp_remove_usd_15, Zero)
          /\ ranked[j].early_score > 0
          /\ ranked[j].early_score <= 100
          /\ ranked[j].classification = "Early Leader"

\* the swaps of pair p at or after eff with ts in [lo, lo + burst_window_s]
burst_rows(p, eff, lo) ==
    {k \in swaps_of(p) :
        /\ swaps.rows[k].ts # NaT
        /\ swaps.rows[k].ts >= eff
        /\ swaps.rows[k].ts >= lo
        /\ swaps.rows[k].ts <= lo + burst_window_s}

\* C20: when a first trade exists, swaps_in_burst is the number of the pair's
\* post-creation swaps with ts in the closed interval [first_trade_ts,
\* first_trade_ts + burst_window_s], at least 1, and swaps_per_min_burst is
\* that number divided by burst_window_s / 60; without a first trade both are 0.
C20_BurstWindow ==
    pc \in {"score", "done"} =>
        \A j \in 1..Len(metrics) :
            LET m == metrics[j]
                n == Cardinality(burst_rows(m.pair_address, m.effective_created_at,
                                            m.first_trade_ts))
            IN  IF m.first_trade_ts # NaT
                THEN /\ m.swaps_in_burst = Num(n, 1)
                     /\ n >= 1
                     /\ m.swaps_per_min_burst = Num(60 * n, burst_window_s)
                ELSE m.swaps_in_burst = Zero /\ m.swaps_per_min_burst = Zero

\* a second swap exactly burst_window_s after the first one is counted
C20_Witness ==
    /\ Done
    /\ \E j \in Rows :
          LET m == metrics[j]
          IN  /\ m.first_trade_ts = T0 + 5
              /\ \E k \in swaps_of(m.pair_address) :
                    swaps.rows[k].ts = m.first_trade_ts + burst_window_s
              /\ m.swaps_in_burst = Num(2, 1)
              /\ m.swaps_per_min_burst = One

\* the swaps of pair p at or after eff with ts in [lo, lo + uniques_window_m]
uniq_rows(p, eff, lo) ==
    {k \in swaps_of(p) :
        /\ swaps.rows[k].ts # NaT
        /\ swaps.rows[k].ts >= eff
        /\ swaps.rows[k].ts >= lo
        /\ swaps.rows[k].ts <= lo + 60 * uniques_window_m}

\* C21: when a first trade exists, uniq_traders_10m is the number of distinct
\* non-null trader identities among the pair's post-creation swaps with ts in
\* [first_trade_ts, first_trade_ts + uniques_window_m]; it never exceeds the
\* number of swaps in that window.
C21_UniquesWindow ==
    pc \in {"score", "done"} =>
        \A j \in 1..Len(metrics) :
            LET m == metrics[j]
                W == uniq_rows(m.pair_address, m.effective_created_at, m.first_trade_ts)
                ids == {swaps.rows[k].trader_wallet : k \in W} \ {NullStr}
            IN  m.first_trade_ts # NaT =>
                    /\ m.uniq_traders_10m = Num(Cardinality(ids), 1)
                    /\ Cardinality(ids) <= Cardinality(W)

\* two swaps by the same trader, the second exactly at the end of the window,
\* count once
C21_Witness ==
    /\ Done
    /\ Len(swaps.rows) = 2
    /\ swaps.rows[1].ts = T0 + 5 /\ swaps.rows[1].trader_wallet = "A"
    /\ swaps.rows[2].ts = T0 + 5 + 60 * uniques_window_m /\ swaps.rows[2].trader_wallet = "A"
    /\ \E j \in Rows : metrics[j].first_trade_ts = T0 + 5 /\ metrics[j].uniq_traders_10m = One

\* the swaps of pair p at or after eff with ts in [lo, lo + 15 min]
ratio_rows(p, eff, lo) ==
    {k \in swaps_of(p) :
        /\ swaps.rows[k].ts # NaT
        /\ swaps.rows[k].ts >= eff
        /\ swaps.rows[k].ts >= lo
        /\ swaps.rows[k].ts <= lo + 60 * pwm_window_total_m}

\* those of the swaps W whose side is "buy"
buy_rows(W) == {k \in W : Lower(swaps.rows[k].side) = "buy"}

\* the amount cell of swap k in the field f
cell_of(k, f) ==
    CASE f = "amount_usd" -> swaps.rows[k].amount_usd
      [] f = "amount_in" -> swaps.rows[k].amount_in
      [] OTHER -> swaps.rows[k].amount_out

has_field(B, f) == \E k \in B : cell_of(k, f) # NaNCell

\* weights by field: the first of the three fields that any of the buys B
\* carries is used for all of them, a missing cell counting 0; weight 1 each
\* when no buy carries any field
weight_by_field(B) ==
    LET f == CASE has_field(B, "amount_usd") -> "amount_usd"
               [] has_field(B, "amount_in") -> "amount_in"
               [] has_field(B, "amount_out") -> "amount_out"
               [] OTHER -> "none"
    IN  [k \in B |-> IF f = "none" THEN 1
                     ELSE IF cell_of(k, f) = NaNCell THEN 0 ELSE cell_of(k, f)]

\* weights by swap: each swap takes the first field it carries itself, 1 if none
weight_by_swap(B) ==
    [k \in B |-> CASE cell_of(k, "amount_usd") # NaNCell -> cell_of(k, "amount_usd")
                   [] cell_of(k, "amount_in") # NaNCell -> cell_of(k, "amount_in")
                   [] cell_of(k, "amount_out") # NaNCell -> cell_of(k, "amount_out")
                   [] OTHER -> 1]

\* (sum of the five largest per-trader totals) / (sum of all of them) for the
\* buys B under the weights wt, null without buys or with a total of 0
top5_of(B, wt) ==
    LET traders == {swaps.rows[k].trader_wallet : k \in B} \ {NullStr}
        g == [t \in traders |-> SumOver(wt, {k \in B : swaps.rows[k].trader_wallet = t})]
        total == SumOver(g, traders)
    IN  IF B = {} \/ total = 0 THEN NaN ELSE Num(SumTop(g, traders, top_n), total)

\* the buys of the ratio window of the metrics row m
window_buys(m) == buy_rows(ratio_rows(m.pair_address, m.effective_created_at, m.first_trade_ts))

\* C22 as stated: each buy of the window is weighted by the first amount field
\* available for that swap (amount_usd, amount_in, amount_out; 1.0 if none).
C22_AsStated ==
    Done =>
        \A j \in Rows :
            metrics[j].first_trade_ts # NaT =>
                metrics[j].top5_concentration
                    = top5_of(window_buys(metrics[j]), weight_by_swap(window_buys(metrics[j])))

\* C22, amended: over the buys of the buy-ratio window the weight is taken from
\* one field for all swaps, the first of amount_usd, amount_in, amount_out that
\* has a value on at least one of them, a swap without value in that field
\* weighing 0 (weight 1.0 per swap when none of the fields has any value);
\* weights are summed per non-null trader and top5_concentration is (sum of
\* the five largest totals) / (sum of all totals) when that total is > 0, null
\* when there are no buys or the total is 0.
C22_Top5Concentration ==
    Done =>
        \A j \in Rows :
            metrics[j].first_trade_ts # NaT =>
                metrics[j].top5_concentration
                    = top5_of(window_buys(metrics[j]), weight_by_field(window_buys(metrics[j])))

\* six traders bought, five of them 100 each and one 300: the five largest
\* hold 700 of 800
C22_Witness ==
    /\ Done
    /\ Cardinality({swaps.rows[k].trader_wallet : k \in window_buys(metrics[1])} \ {NullStr}) = 6
    /\ metrics[1].top5_concentration = Num(7, 8)

\* the " & "-joined list of those of the names A, B, C whose gate (a, b, c) is
\* false, in that order, or none when every gate is true
failed_list(a, b, c, A, B, C, none) ==
    CASE a /\ b /\ c -> none
      [] ~a /\ b /\ c -> A
      [] a /\ ~b /\ c -> B
      [] a /\ b /\ ~c -> C
      [] ~a /\ ~b /\ c -> A \o " & " \o B
      [] ~a /\ b /\ ~c -> A \o " & " \o C
      [] a /\ ~b /\ ~c -> B \o " & " \o C
      [] OTHER -> A \o " & " \o B \o " & " \o C

\* C23: a "Hype / Risky" row's reason lists, in the order Concentration,
\* Uniques, BuyRatio and joined by " & ", exactly the gates among
\* concentration_ok, uniques_ok, buy_ratio_ok that are false, or is
\* "Borderline"; a default "Loser" row's reason does the same with Low
\* velocity, Low uniques, Unbalanced flow for velocity_ok, uniques_ok,
\* buy_ratio_ok, or is "Weak"; an Early Leader's reason is always
\* "Velocity+Uniques+Balance+Dispersion".
C23_ReasonStrings ==
    Done =>
        \A j \in Rows :
            LET r == ranked[j]
                m == r.metrics
            IN  /\ r.classification = "Hype / Risky" =>
                      r.reason = failed_list(gate_conc(m, th), gate_uniques(m, th), gate_br(m, th),
                                             "Concentration", "Uniques", "BuyRatio", "Borderline")
                /\ r.classification = "Loser" =>
                      r.reason = failed_list(gate_velocity(m, th), gate_uniques(m, th), gate_br(m, th),
                                             "Low velocity", "Low uniques", "Unbalanced flow", "Weak")
                /\ r.classification = "Early Leader" =>
                      r.reason = "Velocity+Uniques+Balance+Dispersion"

\* a Hype / Risky row failing all three gates, next to nothing else
C23_Witness ==
    /\ Done
    /\ Len(ranked) = 1
    /\ ranked[1].classification = "Hype / Risky"
    /\ ~gate_conc(ranked[1].metrics, th)
    /\ ~gate_uniques(ranked[1].metrics, th)
    /\ ~gate_br(ranked[1].metrics, th)
    /\ ranked[1].reason = "Concentration & Uniques & BuyRatio"

\* C27: the default "Loser" reason is never "Weak": it contains "Low velocity"
\* or is exactly "Low uniques & Unbalanced flow".
C27_WeakUnreachable ==
    Done =>
        \A j \in Rows :
            ranked[j].classification = "Loser" =>
                /\ ranked[j].reason # "Weak"
                /\ ranked[j].reason \in
                       {"Low velocity", "Low velocity & Low uniques",
                        "Low velocity & Unbalanced flow",
                        "Low velocity & Low uniques & Unbalanced flow",
                        "Low uniques & Unbalanced flow"}

\* a default Loser whose velocity gate holds: both other gates fail
C27_Witness ==
    /\ Done
    /\ \E j \in Rows :
          /\ ranked[j].classification = "Loser"
          /\ gate_velocity(ranked[j].metrics, th)
          /\ ~gate_uniques(ranked[j].metrics, th)
          /\ ~gate_br(ranked[j].metrics, th)
          /\ ranked[j].reason = "Low uniques & Unbalanced flow"

\* a feature that is null or lies between 0 and 1, the lower end included or not
in_unit_range(x, open_below) ==
    \/ IsNaN(x)
    \/ /\ x.k = "num"
       /\ IF open_below THEN Gt(x, Zero) ELSE Geq(x, Zero)
       /\ Leq(x, One)

\* the ranges alone: buy_ratio_15m null or in [0,1], top5_concentration null
\* or in (0,1]
C28_Ranges ==
    Done =>
        \A j \in Rows :
            /\ in_unit_range(metrics[j].buy_ratio_15m, FALSE)
            /\ in_unit_range(metrics[j].top5_concentration, TRUE)

\* C28: with non-negative amounts, for every pair buy_ratio_15m is null or
\* within [0,1], where over the swaps of the ratio window buys + sells is the
\* number of swaps and every swap whose side is not "buy" counts as a sell;
\* top5_concentration is null or within (0,1], and is exactly 1 whenever at
\* most five distinct traders bought in the window with positive total.
C28_RangeInvariant ==
    Done =>
        \A j \in Rows :
            LET m == metrics[j]
                W == ratio_rows(m.pair_address, m.effective_created_at, m.first_trade_ts)
                B == buy_rows(W)
                traders == {swaps.rows[k].trader_wallet : k \in B} \ {NullStr}
                wt == weight_by_field(B)
                total == SumOver(wt, {k \in B : swaps.rows[k].trader_wallet # NullStr})
            IN  /\ in_unit_range(m.buy_ratio_15m, FALSE)
                /\ in_unit_range(m.top5_concentration, TRUE)
                /\ (m.first_trade_ts # NaT /\ swaps.side_col /\ W # {}) =>
                      m.buy_ratio_15m = Num(Cardinality(B), Cardinality(W))
                /\ (m.first_trade_ts # NaT /\ Cardinality(traders) <= top_n /\ total > 0) =>
                      m.top5_concentration = One

(***************************************************************************)
(* latest_pair_map_for_tokens                                              *)
(***************************************************************************)
\* CHUNK of latest_pair_map_for_tokens (120 in the source)
CHUNK_latest == 2

\* rows requested per token of a batch (limit = len(batch) * 6 in the source)
limit_per_token == 1

\* rows of the pairs table of the data source
MaxTokenRows == 3

\* the token addresses in the order sorted() gives them
TokenOrder == <<"a", "b", "c">>

TokenRow(p, b, sn, c) ==
    [pair_address |-> p, base_token |-> b, snapshot_ts |-> sn, pair_created_at |-> c]

TokenRowSet ==
    {TokenRow(p, b, sn, c) :
        p \in {"p1", "p2"}, b \in {"a", "b"}, sn \in {NaT, T0, T0 + 30}, c \in {NaT, T0}}

\* the pairs table as the request order = snapshot_ts.desc.nullslast returns it
TokenDbs == {r \in SeqsUpTo(TokenRowSet, MaxTokenRows) : SortedDesc(r)}

\* the arguments: no token, an empty string, tokens with and without rows
TokenArgs == {{}, {""}, {"a"}, {"b"}, {"a", "b"}, {"a", "c"}, {"a", "b", "c"}, {"", "b", "c"}}

\* sorted({a for a in token_addrs if isinstance(a, str) and a})
tlist_of(addrs) ==
    Rows_at(TokenOrder, {k \in 1..Len(TokenOrder) : TokenOrder[k] \in addrs \ {"", NullStr}})

\* r sorts before q under sort_values([snapshot_ts, pair_created_at],
\* ascending False), nulls last (NaT is below every instant)
sorts_before(r, q) ==
    \/ r.snapshot_ts > q.snapshot_ts
    \/ (r.snapshot_ts = q.snapshot_ts /\ r.pair_created_at > q.pair_created_at)

\* one pass of the loop body: the request for the batch, cut at its limit,
\* sorted, the first row per base_token kept, and the map entries it writes
latest_of_batch(rows, batch) ==
    LET got == fetch_table(rows, {k \in 1..Len(rows) : InSeq(rows[k].base_token, batch)},
                           Len(batch) * limit_per_token)
        first_of(t) ==
            CHOOSE k \in 1..Len(got) :
                /\ got[k].base_token = t
                /\ \A j \in 1..Len(got) :
                      got[j].base_token = t =>
                          /\ ~sorts_before(got[j], got[k])
                          /\ (j < k => sorts_before(got[k], got[j]))
        found == {got[k].base_token : k \in 1..Len(got)}
        kept == {t \in found : t \notin {"", NullStr} /\ got[first_of(t)].pair_address \notin {"", NullStr}}
    IN  [t \in kept |-> got[first_of(t)].pair_address]

batches_of(addrs) == _chunk(tlist_of(addrs), CHUNK_latest)

PassIdle ==
    /\ db = NoDb
    /\ cfg = Settings(TRUE)
    /\ earlier = NoRun
    /\ kw = DefaultKw
    /\ th = DefaultTh
    /\ pairs = [eff_col |-> FALSE, rows |-> <<>>]
    /\ swaps = [side_col |-> TRUE, rows |-> <<>>]
    /\ pwm = <<>>
    /\ lp_events = <<>>
    /\ metrics = <<>>
    /\ ranked = <<>>
    /\ i = 0

InitLatest ==
    /\ PassIdle /\ DemoIdle /\ LiveIdle
    /\ token_db \in TokenDbs
    /\ token_addrs \in TokenArgs
    /\ maps = <<>>
    /\ batch_no = 0
    /\ pc = "latest"

idle_but_pc == <<db, cfg, kw, earlier, pairs, swaps, pwm, lp_events, th, metrics, ranked, i>>

\* if not tlist: return {}
LatestEmpty ==
    /\ pc = "latest"
    /\ tlist_of(token_addrs) = <<>>
    /\ pc' = "done"
    /\ UNCHANGED <<idle_but_pc, latest_vars, demo_vars, live_vars>>

\* one iteration of the loop over the batches
LatestBatch ==
    /\ pc = "latest"
    /\ batch_no < Len(batches_of(token_addrs))
    /\ batch_no' = batch_no + 1
    /\ maps' = latest_of_batch(token_db, batches_of(token_addrs)[batch_no + 1]) @@ maps
    /\ UNCHANGED <<pass_vars, token_db, token_addrs, demo_vars, live_vars>>

\* return maps
LatestReturn ==
    /\ pc = "latest"
    /\ tlist_of(token_addrs) # <<>>
    /\ batch_no = Len(batches_of(token_addrs))
    /\ pc' = "done"
    /\ UNCHANGED <<idle_but_pc, latest_vars, demo_vars, live_vars>>

NextLatest == LatestEmpty \/ LatestBatch \/ LatestReturn

SpecLatest == InitLatest /\ [][NextLatest]_vars

\* the rows of token t in the data source
rows_of_token(t) == {k \in 1..Len(token_db) : token_db[k].base_token = t}

\* those with the greatest snapshot_ts and, among them, the greatest
\* pair_created_at
latest_rows(t) ==
    {k \in rows_of_token(t) :
        \A j \in rows_of_token(t) :
            \/ token_db[j].snapshot_ts < token_db[k].snapshot_ts
            \/ /\ token_db[j].snapshot_ts = token_db[k].snapshot_ts
               /\ token_db[j].pair_created_at <= token_db[k].pair_created_at}

\* C24: every token passed to latest_pair_map_for_tokens that has a pair row
\* in the data source is in the returned map, mapped to the pair_address of
\* its row with the greatest snapshot_ts (ties broken by the greatest
\* pair_created_at), and its entry is the one a call with that token alone
\* returns, whatever batch it falls in.
C24_LatestPair ==
    (Done /\ batch_no > 0) =>
        \A t \in token_addrs \ {"", NullStr} :
            rows_of_token(t) # {} =>
                /\ t \in DOMAIN maps
                /\ maps[t] \in {token_db[k].pair_address : k \in latest_rows(t)}
                /\ maps[t] = latest_of_batch(token_db, <<t>>)[t]

(***************************************************************************)
(* Demo expiration: _get_demo_start_time, _get_time_remaining,             *)
(* check_demo_expiration. Instants and durations are in clock ticks.       *)
(***************************************************************************)
DEMO_DURATION_HOURS == 6

\* clock ticks per second: datetime instants are finer than a second
HZ == 2

\* script runs followed
MaxRuns == 3

duration == DEMO_DURATION_HOURS * 3600 * HZ

\* the instants at which the clock is read
ClockSet ==
    {0, 1, 3, 60 * HZ - 1, 3600 * HZ, duration - 1, duration, duration + 1, duration + 3600 * HZ}

\* now.isoformat(): the seconds and the fraction of the instant as text
isoformat(t) == [st |-> "text", whole |-> t \div HZ, frac |-> t % HZ]

\* datetime.fromisoformat(ts_str)
fromisoformat(s) == s.whole * HZ + s.frac

readable(file) == file.st = "text"

\* fault: the file is written at every run
_get_demo_start_time_overwriting(file, now, write_ok) ==
    [start |-> now, file |-> IF write_ok THEN isoformat(now) ELSE file]

\* _get_demo_start_time: the instant returned and the file left behind
_get_demo_start_time(file, now, write_ok) ==
    IF readable(file)
    THEN [start |-> fromisoformat(file), file |-> file]
    ELSE [start |-> now, file |-> IF write_ok THEN isoformat(now) ELSE file]

\* _get_time_remaining for a start instant, read at the instant now
_get_time_remaining(start, now) ==
    LET elapsed == now - start
        remaining == duration - elapsed
    IN  IF remaining <= 0
        THEN [expired |-> TRUE, hours |-> 0, minutes |-> 0, seconds |-> 0, total |-> 0]
        ELSE [expired |-> FALSE,
              hours |-> remaining \div (3600 * HZ),
              minutes |-> (remaining % (3600 * HZ)) \div (60 * HZ),
              seconds |-> (remaining % (60 * HZ)) \div HZ,
              total |-> remaining]

\* what a run leaves to compare the next one with
outcome(t) == [expired |-> t.expired, total |-> t.total, start |-> t.start, at |-> t.at]

NoTimer ==
    [expired |-> FALSE, hours |-> 0, minutes |-> 0, seconds |-> 0, total |-> 0,
     start |-> NaT, at |-> NaT, stopped |-> FALSE,
     last |-> [expired |-> FALSE, total |-> 0, start |-> NaT, at |-> NaT]]

InitDemo ==
    /\ PassIdle /\ LatestIdle /\ LiveIdle
    /\ pc = "page"
    /\ launch_file \in {NoFile, GarbledFile}
    /\ clock \in ClockSet
    /\ timer = NoTimer
    /\ runs = 0

\* a script run up to the end of check_demo_expiration: the start instant is
\* read or recorded, the remaining time computed, the page stopped if expired
CheckDemoExpiration ==
    /\ runs < MaxRuns
    /\ \E write_ok \in BOOLEAN :
          LET got == _get_demo_start_time(launch_file, clock, write_ok)
              rem == _get_time_remaining(got.start, clock)
          IN  /\ launch_file' = got.file
              /\ timer' = [expired |-> rem.expired, hours |-> rem.hours,
                           minutes |-> rem.minutes, seconds |-> rem.seconds,
                           total |-> rem.total, start |-> got.start, at |-> clock,
                           stopped |-> rem.expired, last |-> outcome(timer)]
    /\ runs' = runs + 1
    /\ UNCHANGED <<pass_vars, latest_vars, live_vars, clock>>

\* time passes, or the wall clock is set
ClockMoves ==
    /\ runs < MaxRuns
    /\ clock' \in ClockSet \ {clock}
    /\ UNCHANGED <<pass_vars, latest_vars, live_vars, launch_file, timer, runs>>

\* the file under /tmp is removed or damaged from outside
FileLost ==
    /\ runs < MaxRuns
    /\ readable(launch_file)
    /\ launch_file' \in {NoFile, GarbledFile}
    /\ UNCHANGED <<pass_vars, latest_vars, live_vars, clock, timer, runs>>

NextDemo == CheckDemoExpiration \/ ClockMoves \/ FileLost

SpecDemo == InitDemo /\ [][NextDemo]_vars

\* the demo period of the header comment, in hours
stated_hours == 72

\* C26: the demo expires 72 hours after the first launch: a run reports
\* expired, and stops the page, exactly when at least 72 hours have elapsed
\* since the recorded first-launch instant, and before that reports hours,
\* minutes, seconds with hours*3600 + minutes*60 + seconds equal to the whole
\* seconds remaining.
C26_DemoExpiration ==
    runs > 0 =>
        LET elapsed == timer.at - timer.start
            left == stated_hours * 3600 * HZ - elapsed
        IN  /\ timer.expired <=> elapsed >= stated_hours * 3600 * HZ
            /\ timer.stopped <=> timer.expired
            /\ ~timer.expired =>
                  timer.hours * 3600 + timer.minutes * 60 + timer.seconds = left \div HZ

\* the decomposition alone, against the period the code uses
C26_Decomposition ==
    (runs > 0 /\ ~timer.expired) =>
        /\ timer.hours * 3600 + timer.minutes * 60 + timer.seconds
              = (duration - (timer.at - timer.start)) \div HZ
        /\ timer.minutes \in 0..59
        /\ timer.seconds \in 0..59

\* C30: once the first-launch instant is in the persistent file, a run that
\* finds the file readable returns that instant and leaves the file as it
\* is; against the previous run on the same instant, with the clock not set
\* back, the remaining time has not increased and expired stays expired.
C30_TimerMonotone ==
    [][(runs' = runs + 1 /\ readable(launch_file)) =>
          /\ launch_file' = launch_file
          /\ timer'.start = fromisoformat(launch_file)
          /\ (runs > 0 /\ timer.start = timer'.start /\ timer.at <= timer'.at) =>
                /\ timer'.total <= timer.total
                /\ timer.expired => timer'.expired]_vars

\* two runs on the same recorded instant, the earlier one before the end of
\* the period and the later one after it, then a third that is still expired
C30_Witness ==
    /\ runs = 3
    /\ readable(launch_file)
    /\ timer.start = fromisoformat(launch_file)
    /\ timer.last.start = timer.start
    /\ timer.last.at < timer.at
    /\ timer.last.expired
    /\ timer.expired

(***************************************************************************)
(* The live feed: stream_enterprise and run_live_stream.  The stream is a  *)
(* sequence of bytes: "N" a newline, "D" the prefix "data: ", "J" a digit, *)
(* "Q" text that is no JSON, "X" a byte that is no valid UTF-8.            *)
(***************************************************************************)
\* max_events of the one call (200 in the source)
max_events == 2

\* rows of the rendered table (tail(50) in the source)
tail_rows == 1

\* chunks received by one call
MaxChunks == 3

ChunkSet ==
    {<<"D", "J", "N", "N">>, <<"D", "J">>, <<"J", "N", "N">>, <<"N">>,
     <<"D", "Q", "N", "N">>, <<"X", "D", "J", "N", "X", "N">>,
     <<"Q", "N", "D", "J", "N", "N">>,
     <<"D", "J", "N", "D", "J", "J", "N", "N", "D", "J", "N", "N">>}

\* what opening the connection or reading from it may raise
Failures == {"ConnectionError", "Timeout", "HTTPError"}

\* except Exception: return -- the generator ends quietly ("failed"); what the
\* clause does not catch leaves it ("raised")
except_Exception(e) == IF e \in Failures THEN "failed" ELSE "raised"

\* chunk.decode("utf-8", errors="ignore")
decode(chunk) == Rows_at(chunk, {k \in 1..Len(chunk) : chunk[k] # "X"})

\* the position of the first "\n\n" of the buffer, 0 if there is none
first_break(buf) ==
    LET at == {k \in 1..(Len(buf) - 1) : buf[k] = "N" /\ buf[k + 1] = "N"}
    IN  IF at = {} THEN 0 ELSE MinOf(at)

RECURSIVE split_lines(_)
\* frame.split("\n")
split_lines(frame) ==
    LET at == {k \in 1..Len(frame) : frame[k] = "N"}
    IN  IF at = {} THEN <<frame>>
        ELSE <<SubSeq(frame, 1, MinOf(at) - 1)>>
                 \o split_lines(SubSeq(frame, MinOf(at) + 1, Len(frame)))

\* json.loads succeeds on a text of digits and gives the number, here the
\* count of its digits
well_formed(json_text) ==
    json_text # <<>> /\ \A k \in 1..Len(json_text) : json_text[k] = "J"

json_loads(json_text) == Len(json_text)

\* the payloads of one frame, in line order
payloads(frame) ==
    LET lines == split_lines(frame)
        good == {k \in 1..Len(lines) :
                    /\ lines[k] # <<>>
                    /\ lines[k][1] = "D"
                    /\ well_formed(Tail(lines[k]))}
        kept == Rows_at(lines, good)
    IN  [k \in 1..Len(kept) |-> json_loads(Tail(kept[k]))]

RECURSIVE drain_first_frame_only(_, _, _)
\* fault: what follows the first frame of the buffer is thrown away
drain_first_frame_only(buf, count, out) ==
    LET k == first_break(buf)
    IN  IF k = 0 THEN [buffer |-> buf, count |-> count, out |-> out, returned |-> FALSE]
        ELSE LET ev == payloads(SubSeq(buf, 1, k - 1))
             IN  IF count + Len(ev) >= max_events
                 THEN [buffer |-> <<>>, count |-> max_events,
                       out |-> out \o SubSeq(ev, 1, max_events - count), returned |-> TRUE]
                 ELSE [buffer |-> <<>>, count |-> count + Len(ev), out |-> out \o ev,
                       returned |-> FALSE]

RECURSIVE drain(_, _, _)
\* while "\n\n" in buffer: the frames taken off the buffer, their payloads
\* yielded one by one, the generator returning at the max_events-th
drain(buf, count, out) ==
    LET k == first_break(buf)
    IN  IF k = 0 THEN [buffer |-> buf, count |-> count, out |-> out, returned |-> FALSE]
        ELSE LET ev == payloads(SubSeq(buf, 1, k - 1))
                 rest == SubSeq(buf, k + 2, Len(buf))
             IN  IF count + Len(ev) >= max_events
                 THEN [buffer |-> rest, count |-> max_events,
                       out |-> out \o SubSeq(ev, 1, max_events - count), returned |-> TRUE]
                 ELSE drain(rest, count + Len(ev), out \o ev)

\* df_stream.tail(50).iloc[::-1]
df_show(data) ==
    LET n == IF Len(data) < tail_rows THEN Len(data) ELSE tail_rows
    IN  [k \in 1..n |-> data[Len(data) - k + 1]]

\* fault: a refresh clears the flag and keeps the events
reset_state_keeping_data(ss, refresh_feed) ==
    IF "stream_data" \notin ss.keys
    THEN [keys |-> {"stream_data", "stream_initialized"}, stream_data |-> <<>>,
          stream_initialized |-> FALSE]
    ELSE IF refresh_feed THEN [ss EXCEPT !.stream_initialized = FALSE]
    ELSE ss

\* if "stream_data" not in st.session_state or refresh_feed: both keys reset
reset_state(ss, refresh_feed) ==
    IF "stream_data" \notin ss.keys \/ refresh_feed
    THEN [keys |-> {"stream_data", "stream_initialized"}, stream_data |-> <<>>,
          stream_initialized |-> FALSE]
    ELSE ss

InitLive ==
    /\ PassIdle /\ LatestIdle /\ DemoIdle
    /\ pc = "page"
    /\ net = "none"
    /\ buffer = <<>>
    /\ event_count = 0
    /\ received = <<>>
    /\ session_state = NoSession
    /\ shown = <<>>

\* a script run reaches the live feed, with the Refresh Feed button clicked
\* or not; a run still streaming is stopped and its generator dropped.  The
\* stream starts only if the flag is not set, and the flag is set first.
ScriptRun ==
    \E refresh_feed \in BOOLEAN :
        LET ss == reset_state(session_state, refresh_feed)
        IN  /\ session_state' = [ss EXCEPT !.stream_initialized = TRUE]
            /\ net' = IF ss.stream_initialized THEN "none" ELSE "connecting"
            /\ buffer' = <<>>
            /\ event_count' = 0
            /\ received' = <<>>
            /\ shown' = <<>>
            /\ UNCHANGED <<pass_vars, latest_vars, demo_vars>>

\* requests.get and raise_for_status: the stream opens, or the failure ends
\* the generator
Connect ==
    /\ net = "connecting"
    /\ \E e \in {"ok"} \cup Failures :
          net' = IF e = "ok" THEN "open" ELSE except_Exception(e)
    /\ UNCHANGED <<pass_vars, latest_vars, demo_vars, buffer, event_count, received, session_state, shown>>

\* one chunk arrives: it is decoded onto the buffer, the complete frames are
\* taken off, each payload is appended to stream_data and the table rendered
ReceiveChunk ==
    /\ net = "open"
    /\ Len(received) < MaxChunks
    /\ \E chunk \in ChunkSet :
          LET got == drain(buffer \o decode(chunk), event_count, <<>>)
              data == session_state.stream_data \o got.out
          IN  /\ received' = Append(received, chunk)
              /\ buffer' = got.buffer
              /\ event_count' = got.count
              /\ session_state' = [session_state EXCEPT !.stream_data = data]
              /\ shown' = IF got.out = <<>> THEN shown ELSE df_show(data)
              /\ net' = IF got.returned THEN "returned" ELSE "open"
    /\ UNCHANGED <<pass_vars, latest_vars, demo_vars>>

\* reading the next chunk fails
ReadFails ==
    /\ net = "open"
    /\ \E e \in Failures : net' = except_Exception(e)
    /\ UNCHANGED <<pass_vars, latest_vars, demo_vars, buffer, event_count, received, session_state, shown>>

\* the server ends the stream: the loop over the chunks is over
StreamEnds ==
    /\ net = "open"
    /\ net' = "ended"
    /\ UNCHANGED <<pass_vars, latest_vars, demo_vars, buffer, event_count, received, session_state, shown>>

NextLive == ScriptRun \/ Connect \/ ReceiveChunk \/ ReadFails \/ StreamEnds

SpecLive == InitLive /\ [][NextLive]_vars

RECURSIVE text_of(_)
\* the text of the chunks received, each decoded as it came
text_of(chunks) ==
    IF chunks = <<>> THEN <<>>
    ELSE text_of(SubSeq(chunks, 1, Len(chunks) - 1)) \o decode(chunks[Len(chunks)])

RECURSIVE frame_payloads(_)
\* the payloads of the complete frames of a text, frame after frame: one per
\* line that starts with the prefix and carries well-formed JSON
frame_payloads(text) ==
    IF first_break(text) = 0 THEN <<>>
    ELSE payloads(SubSeq(text, 1, first_break(text) - 1))
             \o frame_payloads(SubSeq(text, first_break(text) + 2, Len(text)))

\* the first n elements of a sequence
first_n(sq, n) == SubSeq(sq, 1, IF Len(sq) < n THEN Len(sq) ELSE n)

\* a call of stream_enterprise that got its connection
called == net \in {"open", "returned", "ended", "failed"} /\ session_state.stream_initialized

====
